---- MODULE Spec2Model ----
(***************************************************************************)
(* The grid core of aoc/src/lib.rs: the Grid trait with its dense          *)
(* (Vec<Vec<T>>) and sparse (HashMap<Point, T>) backends, the derived      *)
(* rotations, the orientation iterator, flood fill, plot_line and blit.    *)
(*                                                                         *)
(* A Point [x, y] is the tuple <<x, y>>.  An Option<T> is <<>> (None) or   *)
(* <<v>> (Some(v)).  A grid is a record                                    *)
(*     [kind |-> "dense",  rows |-> <<row, ...>>, cells |-> <<>>]          *)
(*     [kind |-> "sparse", rows |-> <<>>,         cells |-> [keys -> T]]   *)
(* rows are 1-indexed sequences, so the cell [x, y] of the source is       *)
(* rows[y + 1][x + 1].  A method that can panic (an index out of range)    *)
(* returns [g |-> the grid, ok |-> FALSE when it panicked].                *)
(***************************************************************************)
EXTENDS Integers, Sequences, FiniteSets, TLC

VARIABLES grid, orig, hist, panicked, iter, items, src, args, out

vars == <<grid, orig, hist, panicked, iter, items, src, args, out>>

----------------------------------------------------------------------------
(* Bounds of the model *)

\* values of T are 1..NumVals
NumVals == 3
\* a caller-created dense grid has at most MaxRows rows of at most MaxCols cells
MaxRows == 2
MaxCols == 3
\* keys of a caller-created sparse grid lie in (-MaxCoord..MaxCoord)^2
MaxCoord == 1
\* a caller-created sparse grid has at most MaxCells keys
MaxCells == 2
\* longest run of calls of one method that is counted
MaxRun == 4
\* next() calls on one orientation iterator
MaxNext == 10
\* the largest absolute coordinate of an endpoint passed to plot_line
MaxLine == 3
\* the longest sequence of calls of SpecOps
MaxOps == 2
\* the next() calls made on a points() iterator after its end
MaxAfterEnd == 2
\* the largest absolute coordinate of a point passed to a hex conversion
MaxHex == 3
\* the longest run of one hex rotation
MaxHexRun == 6
\* how far above 8 the connectivity values passed to grid_to_graph go
MaxOther == 1
\* the most lookups in DIRECTION_MAP a caller makes
MaxLookups == 2
\* the most moduli passed to chinese_remainder, and the largest of them
MaxCrt == 3
MaxModulus == 7
\* the most rules of a rule list, and the most bags of one colour in a bag
MaxRules == 3
MaxCount == 2
\* the bits of a u32 in the model of the pixel buffer
U32Bits == 3
\* a basename has at most MaxName characters; a drawer gets at most MaxDraws calls
MaxName == 3
MaxDraws == 3
\* the least width of the frame number in "{}_{:06}.png"
FrameDigits == 6
\* the sprite_dimension of the sprite drawers
SpriteDimension == <<2, 1>>

Vals == 1..NumVals
\* T::default(), the filler of resize_with in Vec::transpose
DefaultVal == 0
Coord == (0 - MaxCoord)..MaxCoord
Points == Coord \X Coord

None == <<>>
Some(v) == <<v>>

Min2(a, b) == IF a < b THEN a ELSE b
Max2(a, b) == IF a > b THEN a ELSE b
SetMin(S) == CHOOSE m \in S : \A n \in S : m <= n
SetMax(S) == CHOOSE m \in S : \A n \in S : m >= n

point_add(a, b) == <<a[1] + b[1], a[2] + b[2]>>

Dense(rows) == [kind |-> "dense", rows |-> rows, cells |-> <<>>]
Sparse(cells) == [kind |-> "sparse", rows |-> <<>>, cells |-> cells]

\* `for y in min_y..=max_y { for x in min_x..=max_x {` as the sequence of the
\* [x, y] it visits, in order
BoxPoints(min, max) ==
    LET w == max[1] - min[1] + 1
        h == max[2] - min[2] + 1
    IN  IF w <= 0 \/ h <= 0 THEN <<>>
        ELSE [i \in 1..(w * h) |-> <<min[1] + ((i - 1) % w), min[2] + ((i - 1) \div w)>>]

----------------------------------------------------------------------------
(* impl Grid for HashMap<Point, T> *)

HashMap_get_value(cells, pos) ==
    IF pos \in DOMAIN cells THEN Some(cells[pos]) ELSE None

HashMap_set_value(cells, pos, value) ==
    [p \in (DOMAIN cells) \cup {pos} |-> IF p = pos THEN value ELSE cells[p]]

\* extents folding min and max from 0 instead of taking 0 only for an empty
\* map: the box always contains the origin
HashMap_extents_from_origin(cells) ==
    LET xs == {p[1] : p \in DOMAIN cells} \cup {0}
        ys == {p[2] : p \in DOMAIN cells} \cup {0}
    IN  <<<<SetMin(xs), SetMin(ys)>>, <<SetMax(xs), SetMax(ys)>>>>

HashMap_extents(cells) ==
    LET xs == {p[1] : p \in DOMAIN cells}
        ys == {p[2] : p \in DOMAIN cells}
        min_x == IF xs = {} THEN 0 ELSE SetMin(xs)
        min_y == IF ys = {} THEN 0 ELSE SetMin(ys)
        max_x == IF xs = {} THEN 0 ELSE SetMax(xs)
        max_y == IF ys = {} THEN 0 ELSE SetMax(ys)
    IN  <<<<min_x, min_y>>, <<max_x, max_y>>>>

\* new_grid.insert(new[k], v) for every (k, v) of the map, then the map is
\* cleared and refilled from new_grid.  When two keys collide the one the
\* HashMap iterates last wins; the key maps used below are injective.
HashMap_rekey(cells, new) ==
    [q \in {new[p] : p \in DOMAIN cells} |->
        cells[CHOOSE p \in DOMAIN cells : new[p] = q]]

\* flip_horizontal mirroring about max_x alone (min_x forgotten)
HashMap_flip_horizontal_no_min(cells) ==
    LET e == HashMap_extents(cells)
        max_x == e[2][1]
        new == [p \in DOMAIN cells |-> <<max_x - p[1], p[2]>>]
    IN  HashMap_rekey(cells, new)

HashMap_flip_horizontal(cells) ==
    LET e == HashMap_extents(cells)
        min_x == e[1][1]
        max_x == e[2][1]
        new == [p \in DOMAIN cells |-> <<max_x - (p[1] - min_x), p[2]>>]
    IN  HashMap_rekey(cells, new)

HashMap_flip_vertical(cells) ==
    LET e == HashMap_extents(cells)
        min_y == e[1][2]
        max_y == e[2][2]
        new == [p \in DOMAIN cells |-> <<p[1], max_y - (p[2] - min_y)>>]
    IN  HashMap_rekey(cells, new)

HashMap_transpose(cells) ==
    LET new == [p \in DOMAIN cells |-> <<p[2], p[1]>>]
    IN  HashMap_rekey(cells, new)

----------------------------------------------------------------------------
(* impl Grid for Vec<Vec<T>> *)

\* self[y as usize][x as usize] does not panic
InVec(rows, x, y) ==
    /\ y >= 0 /\ y < Len(rows)
    /\ x >= 0 /\ x < Len(rows[y + 1])

Vec_get_value(rows, pos) ==
    IF InVec(rows, pos[1], pos[2]) THEN Some(rows[pos[2] + 1][pos[1] + 1]) ELSE None

\* set_value growing the row with T::default() up to x when the row exists
\* and x is beyond its end
Vec_set_value_grows(rows, pos, value) ==
    IF InVec(rows, pos[1], pos[2])
    THEN [rows EXCEPT ![pos[2] + 1][pos[1] + 1] = value]
    ELSE IF pos[2] >= 0 /\ pos[2] < Len(rows) /\ pos[1] >= 0
    THEN [rows EXCEPT ![pos[2] + 1] =
            [x \in 1..(pos[1] + 1) |->
                IF x <= Len(rows[pos[2] + 1]) THEN rows[pos[2] + 1][x]
                ELSE IF x = pos[1] + 1 THEN value ELSE DefaultVal]]
    ELSE rows

Vec_set_value(rows, pos, value) ==
    IF InVec(rows, pos[1], pos[2])
    THEN [rows EXCEPT ![pos[2] + 1][pos[1] + 1] = value]
    ELSE rows

Vec_extents(rows) ==
    IF Len(rows) /= 0 /\ Len(rows[1]) /= 0
    THEN <<<<0, 0>>, <<Len(rows[1]) - 1, Len(rows) - 1>>>>
    ELSE <<<<0, 0>>, <<0, 0>>>>

\* The loops of flip_horizontal, flip_vertical and transpose: for every [x, y]
\* of pts in order, new_vec[target([x, y])] = self[y][x].  moves is what is
\* left of the sequence of <<[x, y], target([x, y])>>.  An index out of range
\* panics before `*self = new_vec`, which leaves self as it was.
RECURSIVE Vec_copy_loop(_, _, _)
Vec_copy_loop(self, new_vec, moves) ==
    IF moves = <<>> THEN [rows |-> new_vec, ok |-> TRUE]
    ELSE LET p == Head(moves)[1]
             t == Head(moves)[2]
         IN  IF ~InVec(self, p[1], p[2]) \/ ~InVec(new_vec, t[1], t[2])
             THEN [rows |-> self, ok |-> FALSE]
             ELSE Vec_copy_loop(self,
                                [new_vec EXCEPT ![t[2] + 1][t[1] + 1] = self[p[2] + 1][p[1] + 1]],
                                Tail(moves))

Moves(pts, new) == [i \in 1..Len(pts) |-> <<pts[i], new[pts[i]]>>]

Vec_flip_horizontal(rows) ==
    LET e == Vec_extents(rows)
        min_x == e[1][1]
        max_x == e[2][1]
        pts == BoxPoints(e[1], e[2])
        new == [p \in {pts[i] : i \in 1..Len(pts)} |-> <<max_x - (p[1] - min_x), p[2]>>]
    IN  Vec_copy_loop(rows, rows, Moves(pts, new))

\* flip_vertical writing into self instead of a clone: the rows already
\* overwritten are read again
RECURSIVE Vec_in_place_loop(_, _)
Vec_in_place_loop(self, moves) ==
    IF moves = <<>> THEN [rows |-> self, ok |-> TRUE]
    ELSE LET p == Head(moves)[1]
             t == Head(moves)[2]
         IN  IF ~InVec(self, p[1], p[2]) \/ ~InVec(self, t[1], t[2])
             THEN [rows |-> self, ok |-> FALSE]
             ELSE Vec_in_place_loop([self EXCEPT ![t[2] + 1][t[1] + 1] = self[p[2] + 1][p[1] + 1]],
                                    Tail(moves))

Vec_flip_vertical_in_place(rows) ==
    LET e == Vec_extents(rows)
        min_y == e[1][2]
        max_y == e[2][2]
        pts == BoxPoints(e[1], e[2])
        new == [p \in {pts[i] : i \in 1..Len(pts)} |-> <<p[1], max_y - (p[2] - min_y)>>]
    IN  Vec_in_place_loop(rows, Moves(pts, new))

Vec_flip_vertical(rows) ==
    LET e == Vec_extents(rows)
        min_y == e[1][2]
        max_y == e[2][2]
        pts == BoxPoints(e[1], e[2])
        new == [p \in {pts[i] : i \in 1..Len(pts)} |-> <<p[1], max_y - (p[2] - min_y)>>]
    IN  Vec_copy_loop(rows, rows, Moves(pts, new))

Vec_transpose(rows) ==
    LET e == Vec_extents(rows)
        width == e[2][1] - e[1][1] + 1
        height == e[2][2] - e[1][2] + 1
        new_vec == [i \in 1..width |-> [j \in 1..height |-> DefaultVal]]
        pts == BoxPoints(e[1], e[2])
        new == [p \in {pts[i] : i \in 1..Len(pts)} |-> <<p[2], p[1]>>]
    IN  Vec_copy_loop(rows, new_vec, Moves(pts, new))

----------------------------------------------------------------------------
(* trait Grid<T>: the three-operation contract and its default methods *)

get_value(g, pos) ==
    IF g.kind = "dense" THEN Vec_get_value(g.rows, pos)
    ELSE HashMap_get_value(g.cells, pos)

set_value(g, pos, value) ==
    IF g.kind = "dense" THEN Dense(Vec_set_value(g.rows, pos, value))
    ELSE Sparse(HashMap_set_value(g.cells, pos, value))

extents(g) ==
    IF g.kind = "dense" THEN Vec_extents(g.rows) ELSE HashMap_extents(g.cells)

FromVec(r) == [g |-> Dense(r.rows), ok |-> r.ok]
FromMap(cells) == [g |-> Sparse(cells), ok |-> TRUE]

flip_horizontal(g) ==
    IF g.kind = "dense" THEN FromVec(Vec_flip_horizontal(g.rows))
    ELSE FromMap(HashMap_flip_horizontal(g.cells))

flip_vertical(g) ==
    IF g.kind = "dense" THEN FromVec(Vec_flip_vertical(g.rows))
    ELSE FromMap(HashMap_flip_vertical(g.cells))

transpose(g) ==
    IF g.kind = "dense" THEN FromVec(Vec_transpose(g.rows))
    ELSE FromMap(HashMap_transpose(g.cells))

\* In `self.a(); self.b();` a panic in a ends the call.
rotate_90_cw(g) ==
    LET t == transpose(g)
    IN  IF t.ok THEN flip_horizontal(t.g) ELSE t

rotate_180_cw(g) ==
    LET t == flip_vertical(g)
    IN  IF t.ok THEN flip_horizontal(t.g) ELSE t

\* rotate_270_cw flipping the wrong way after the transpose
rotate_270_cw_wrong_flip(g) ==
    LET t == transpose(g)
    IN  IF t.ok THEN flip_horizontal(t.g) ELSE t

rotate_270_cw(g) ==
    LET t == transpose(g)
    IN  IF t.ok THEN flip_vertical(t.g) ELSE t

----------------------------------------------------------------------------
(* Grids a caller can create.  A dense grid is any sequence of rows: Vec    *)
(* does not force the rows to be equally long or the grid to have a cell.  *)
(*                                                                         *)
(* The transforms, the orientation iterator and blit copy values of T and  *)
(* never look at them, so their inputs are the labelled grids: every cell  *)
(* holds a value of its own, which tells in the result where each value    *)
(* came from.  fill compares values, so its inputs are the grids over the  *)
(* values Vals.                                                            *)

\* the row lengths of a dense grid
DenseShapes == UNION {[1..m -> 0..MaxCols] : m \in 0..MaxRows}

\* the sets of at most n keys
RECURSIVE KeySetsUpTo(_)
KeySetsUpTo(n) ==
    IF n = 0 THEN {{}}
    ELSE LET S == KeySetsUpTo(n - 1)
         IN  S \cup {K \cup {p} : K \in S, p \in Points}
KeySets == KeySetsUpTo(MaxCells)

\* the value of its own of the cell [x, y]
Label(p) == (p[2] + MaxCoord) * (MaxCoord + MaxCoord + MaxCols + 1) + (p[1] + MaxCoord) + 1

LabelledDense(shape) ==
    Dense([y \in 1..Len(shape) |-> [x \in 1..shape[y] |-> Label(<<x - 1, y - 1>>)]])
LabelledSparse(K) == Sparse([p \in K |-> Label(p)])
LabelledGrids ==
    {LabelledDense(sh) : sh \in DenseShapes} \cup {LabelledSparse(K) : K \in KeySets}

RowsUpTo(n) == UNION {[1..k -> Vals] : k \in 0..n}
DenseGrids == {Dense(r) : r \in UNION {[1..m -> RowsUpTo(MaxCols)] : m \in 0..MaxRows}}
SparseGrids == {Sparse(c) : c \in UNION {[K -> Vals] : K \in KeySets}}
Grids == DenseGrids \cup SparseGrids

NoGrid == Sparse(<<>>)
NoIter == [rot |-> 0, flip |-> FALSE, grid |-> NoGrid, live |-> FALSE]

----------------------------------------------------------------------------
(* Spec: a caller-created grid under any sequence of transform calls.     *)
(* hist is the current run of calls of one method: its name and how many  *)
(* calls long it is; orig is the grid as it was when that run began.      *)

NoCall == [name |-> "", n |-> 0]

\* the state a caller starts from with the grid g
Start(g) ==
    /\ grid = g
    /\ orig = g
    /\ hist = NoCall
    /\ panicked = FALSE
    /\ iter = NoIter
    /\ items = <<>>
    /\ src = NoGrid
    /\ args = <<>>
    /\ out = <<>>

Init == \E g \in LabelledGrids : Start(g)

Apply(name, r) ==
    /\ ~panicked
    /\ hist.name = name => hist.n < MaxRun
    /\ grid' = r.g
    /\ panicked' = ~r.ok
    /\ hist' = [name |-> name, n |-> IF hist.name = name THEN hist.n + 1 ELSE 1]
    /\ orig' = IF hist.name = name THEN orig ELSE grid
    /\ UNCHANGED <<iter, items, src, args, out>>

FlipHorizontal == Apply("flip_horizontal", flip_horizontal(grid))
FlipVertical == Apply("flip_vertical", flip_vertical(grid))
Transpose == Apply("transpose", transpose(grid))
Rotate90 == Apply("rotate_90_cw", rotate_90_cw(grid))
Rotate180 == Apply("rotate_180_cw", rotate_180_cw(grid))
Rotate270 == Apply("rotate_270_cw", rotate_270_cw(grid))

Next ==
    \/ FlipHorizontal
    \/ FlipVertical
    \/ Transpose
    \/ Rotate90
    \/ Rotate180
    \/ Rotate270

Spec == Init /\ [][Next]_vars

----------------------------------------------------------------------------
(* GridFlipIteratorHelper and GridTranspose: the orientation iterator.      *)
(* iter is the iterator a caller holds (live once created), items the       *)
(* Option<G> its next() calls have returned so far, hist.n their number,    *)
(* orig the grid the iterator was created from.                             *)

into_transpositions(self) == [rot |-> 0, flip |-> FALSE, grid |-> self, live |-> TRUE]

\* self.clone() is the same value
transpositions(self) == [rot |-> 0, flip |-> FALSE, grid |-> self, live |-> TRUE]

\* next() working on self.grid itself instead of a clone of it
GridFlipIteratorHelper_next_no_clone(it) ==
    IF it.rot > 3 THEN [it |-> it, item |-> None, ok |-> TRUE]
    ELSE LET g == it.grid
             r == CASE it.rot = 0 -> [g |-> g, ok |-> TRUE]
                    [] it.rot = 1 -> rotate_90_cw(g)
                    [] it.rot = 2 -> rotate_180_cw(g)
                    [] it.rot = 3 -> rotate_270_cw(g)
             f == IF r.ok /\ it.flip THEN flip_horizontal(r.g) ELSE r
             stepped == IF ~it.flip THEN [it EXCEPT !.flip = TRUE]
                        ELSE [it EXCEPT !.flip = FALSE, !.rot = @ + 1]
         IN  IF f.ok THEN [it |-> [stepped EXCEPT !.grid = f.g], item |-> Some(f.g), ok |-> TRUE]
             ELSE [it |-> it, item |-> None, ok |-> FALSE]

\* A panic in a rotation or in the flip leaves the iterator as it was: rot
\* and flip are stepped after them.
GridFlipIteratorHelper_next(it) ==
    IF it.rot > 3 THEN [it |-> it, item |-> None, ok |-> TRUE]
    ELSE LET g == it.grid
             r == CASE it.rot = 0 -> [g |-> g, ok |-> TRUE]
                    [] it.rot = 1 -> rotate_90_cw(g)
                    [] it.rot = 2 -> rotate_180_cw(g)
                    [] it.rot = 3 -> rotate_270_cw(g)
             f == IF r.ok /\ it.flip THEN flip_horizontal(r.g) ELSE r
             stepped == IF ~it.flip THEN [it EXCEPT !.flip = TRUE]
                        ELSE [it EXCEPT !.flip = FALSE, !.rot = @ + 1]
         IN  IF f.ok THEN [it |-> stepped, item |-> Some(f.g), ok |-> TRUE]
             ELSE [it |-> it, item |-> None, ok |-> FALSE]

Transpositions ==
    /\ ~iter.live
    /\ iter' = transpositions(grid)
    /\ hist' = [name |-> "transpositions", n |-> 0]
    /\ UNCHANGED <<grid, orig, panicked, items, src, args, out>>

IntoTranspositions ==
    /\ ~iter.live
    /\ iter' = into_transpositions(grid)
    /\ hist' = [name |-> "into_transpositions", n |-> 0]
    /\ UNCHANGED <<grid, orig, panicked, items, src, args, out>>

IterNext ==
    /\ iter.live
    /\ ~panicked
    /\ hist.n < MaxNext
    /\ LET r == GridFlipIteratorHelper_next(iter)
       IN  /\ iter' = r.it
           /\ items' = IF r.ok THEN Append(items, r.item) ELSE items
           /\ panicked' = ~r.ok
    /\ hist' = [hist EXCEPT !.n = @ + 1]
    /\ UNCHANGED <<grid, orig, src, args, out>>

NextIter ==
    \/ Transpositions
    \/ IntoTranspositions
    \/ IterNext

SpecIter == Init /\ [][NextIter]_vars

----------------------------------------------------------------------------
(* Grid::fill.  SpecFill: one fill call on a caller-created grid; orig is   *)
(* the grid before the call, args its <<pos, value>>.  fill keeps the      *)
(* shape (rows, keys) and writes values of T only, so its result is again  *)
(* a grid of Init: a second call would start from a state a first call     *)
(* starts from.                                                            *)

\* the pushes of one recoloured position p, in the order of the source
FillPushes(p, ext) ==
    (IF p[1] > ext[1][1] THEN <<(<<p[1] - 1, p[2]>>)>> ELSE <<>>)
    \o (IF p[1] < ext[2][1] THEN <<(<<p[1] + 1, p[2]>>)>> ELSE <<>>)
    \o (IF p[2] > ext[1][2] THEN <<(<<p[1], p[2] - 1>>)>> ELSE <<>>)
    \o (IF p[2] < ext[2][2] THEN <<(<<p[1], p[2] + 1>>)>> ELSE <<>>)

\* `while let Some(p) = todo.pop()`: todo is a stack, its top the last element
RECURSIVE fill_loop(_, _, _, _, _)
fill_loop(g, todo, old, value, ext) ==
    IF todo = <<>> THEN g
    ELSE LET p == todo[Len(todo)]
             rest == SubSeq(todo, 1, Len(todo) - 1)
         IN  IF get_value(g, p) = Some(old)
             THEN fill_loop(set_value(g, p, value), rest \o FillPushes(p, ext), old, value, ext)
             ELSE fill_loop(g, rest, old, value, ext)

\* fill writing the start position before looking at what it holds
fill_sets_start(g, pos, value) ==
    LET ext == extents(g)
        old == get_value(g, pos)
    IN  IF old = None THEN set_value(g, pos, value)
        ELSE IF value = old[1] THEN g
        ELSE fill_loop(g, <<pos>>, old[1], value, ext)

fill(g, pos, value) ==
    LET ext == extents(g)
        old == get_value(g, pos)
    IN  IF old = None THEN g
        ELSE IF value = old[1] THEN g
        ELSE fill_loop(g, <<pos>>, old[1], value, ext)

\* positions a caller passes: in and around every grid of the model
ArgCoord == (0 - MaxCoord - 1)..Max2(MaxCoord + 1, Max2(MaxRows, MaxCols))
ArgPoints == ArgCoord \X ArgCoord

Fill ==
    /\ ~panicked
    /\ hist = NoCall
    /\ \E pos \in ArgPoints, value \in Vals :
        /\ grid' = fill(grid, pos, value)
        /\ args' = <<pos, value>>
    /\ orig' = grid
    /\ hist' = [name |-> "fill", n |-> 1]
    /\ UNCHANGED <<panicked, iter, items, src, out>>

NextFill == Fill

InitFill == \E g \in Grids : Start(g)

SpecFill == InitFill /\ [][NextFill]_vars

----------------------------------------------------------------------------
(* plot_line.  SpecLine: one plot_line(a, b) call; args is its <<a, b>>,   *)
(* out the Vec<Point> it returned.  The coordinates are i64: a difference  *)
(* or 2 * err leaves the i64 range only for endpoints more than 2^62       *)
(* apart, whose line no Vec can hold, so the arithmetic below is that of   *)
(* the integers.                                                           *)

Abs(x) == IF x < 0 THEN 0 - x ELSE x

\* plot_line with the end test of the loop ahead of the push
RECURSIVE plot_line_loop_break_first(_, _, _, _, _, _, _, _, _, _)
plot_line_loop_break_first(x0, y0, x1, y1, dx, sx, dy, sy, err, out_) ==
    IF x0 = x1 /\ y0 = y1 THEN out_
    ELSE LET pushed == Append(out_, <<x0, y0>>)
             e2 == 2 * err
             stepx == e2 >= dy
             err1 == IF stepx THEN err + dy ELSE err
             x0n == IF stepx THEN x0 + sx ELSE x0
             stepy == e2 <= dx
             err2 == IF stepy THEN err1 + dx ELSE err1
             y0n == IF stepy THEN y0 + sy ELSE y0
         IN  plot_line_loop_break_first(x0n, y0n, x1, y1, dx, sx, dy, sy, err2, pushed)

plot_line_break_first(a, b) ==
    LET dx == Abs(b[1] - a[1])
        sx == IF a[1] < b[1] THEN 1 ELSE 0 - 1
        dy == 0 - Abs(b[2] - a[2])
        sy == IF a[2] < b[2] THEN 1 ELSE 0 - 1
    IN  plot_line_loop_break_first(a[1], a[2], b[1], b[2], dx, sx, dy, sy, dx + dy, <<>>)

\* one turn of `loop { ... }` and the turns after it
RECURSIVE plot_line_loop(_, _, _, _, _, _, _, _, _, _)
plot_line_loop(x0, y0, x1, y1, dx, sx, dy, sy, err, out_) ==
    LET pushed == Append(out_, <<x0, y0>>)
    IN  IF x0 = x1 /\ y0 = y1 THEN pushed
        ELSE LET e2 == 2 * err
                 stepx == e2 >= dy
                 err1 == IF stepx THEN err + dy ELSE err
                 x0n == IF stepx THEN x0 + sx ELSE x0
                 stepy == e2 <= dx
                 err2 == IF stepy THEN err1 + dx ELSE err1
                 y0n == IF stepy THEN y0 + sy ELSE y0
             IN  plot_line_loop(x0n, y0n, x1, y1, dx, sx, dy, sy, err2, pushed)

\* plot_line drawing from the endpoint with the smaller x, whatever the order
\* of its arguments
plot_line_left_first(a, b) ==
    LET from == IF b[1] < a[1] THEN b ELSE a
        to == IF b[1] < a[1] THEN a ELSE b
        dx == Abs(to[1] - from[1])
        sx == IF from[1] < to[1] THEN 1 ELSE 0 - 1
        dy == 0 - Abs(to[2] - from[2])
        sy == IF from[2] < to[2] THEN 1 ELSE 0 - 1
        drawn == plot_line_loop(from[1], from[2], to[1], to[2], dx, sx, dy, sy, dx + dy, <<>>)
    IN  IF from = a THEN drawn ELSE [i \in 1..Len(drawn) |-> drawn[Len(drawn) + 1 - i]]

plot_line(a, b) ==
    LET dx == Abs(b[1] - a[1])
        sx == IF a[1] < b[1] THEN 1 ELSE 0 - 1
        dy == 0 - Abs(b[2] - a[2])
        sy == IF a[2] < b[2] THEN 1 ELSE 0 - 1
    IN  plot_line_loop(a[1], a[2], b[1], b[2], dx, sx, dy, sy, dx + dy, <<>>)

\* the endpoints a caller passes
LineCoord == (0 - MaxLine)..MaxLine
LinePoints == LineCoord \X LineCoord

PlotLine ==
    /\ hist = NoCall
    /\ \E a \in LinePoints, b \in LinePoints :
        /\ out' = plot_line(a, b)
        /\ args' = <<a, b>>
    /\ hist' = [name |-> "plot_line", n |-> 1]
    /\ UNCHANGED <<grid, orig, panicked, iter, items, src>>

NextLine == PlotLine

InitLine == Start(NoGrid)

SpecLine == InitLine /\ [][NextLine]_vars

----------------------------------------------------------------------------
(* Grid::blit and Grid::blit_rect.  SpecBlit: one call on a caller-created *)
(* destination; src is the source grid g (a grid of its own: self is       *)
(* borrowed mutably), orig the destination before the call, args the       *)
(* <<pos, start, end>> of the call.  The cells of the source hold the      *)
(* negated labels, so no source value is a destination value.              *)

\* the two nested `for ... .enumerate()` loops: pts is what is left of the
\* [xx, yy] they visit, [dx, dy] is [xx - min_xx, yy - min_yy]
RECURSIVE blit_rect_loop(_, _, _, _, _)
blit_rect_loop(self, pos, g, min, pts) ==
    IF pts = <<>> THEN self
    ELSE LET p == Head(pts)
             t == point_add(pos, <<p[1] - min[1], p[2] - min[2]>>)
             v == get_value(g, p)
         IN  blit_rect_loop(IF v /= None THEN set_value(self, t, v[1]) ELSE self,
                            pos, g, min, Tail(pts))

\* blit_rect adding the source position itself to pos, not its offset in the
\* clipped rectangle
blit_rect_no_offset(self, pos, g, start, end) ==
    LET e == extents(g)
        min_xx == Max2(e[1][1], start[1])
        min_yy == Max2(e[1][2], start[2])
        max_xx == Min2(e[2][1], end[1])
        max_yy == Min2(e[2][2], end[2])
    IN  blit_rect_loop(self, pos, g, <<0, 0>>,
                       BoxPoints(<<min_xx, min_yy>>, <<max_xx, max_yy>>))

blit_rect(self, pos, g, start, end) ==
    LET e == extents(g)
        min_xx == Max2(e[1][1], start[1])
        min_yy == Max2(e[1][2], start[2])
        max_xx == Min2(e[2][1], end[1])
        max_yy == Min2(e[2][2], end[2])
    IN  blit_rect_loop(self, pos, g, <<min_xx, min_yy>>,
                       BoxPoints(<<min_xx, min_yy>>, <<max_xx, max_yy>>))

blit(self, pos, g) == blit_rect(self, pos, g, extents(g)[1], extents(g)[2])

\* g with every value negated
Negated(g) ==
    IF g.kind = "dense"
    THEN Dense([y \in 1..Len(g.rows) |-> [x \in 1..Len(g.rows[y]) |-> 0 - g.rows[y][x]]])
    ELSE Sparse([p \in DOMAIN g.cells |-> 0 - g.cells[p]])

\* the destinations and the sources of the calls
BlitDests ==
    {LabelledDense(sh) : sh \in DenseShapes} \cup {LabelledSparse(K) : K \in KeySetsUpTo(1)}
BlitSources == {Negated(g) : g \in LabelledGrids}

BlitRect ==
    /\ hist = NoCall
    /\ \E pos \in Points, start \in Points, end \in Points :
        /\ grid' = blit_rect(grid, pos, src, start, end)
        /\ args' = <<pos, start, end>>
    /\ orig' = grid
    /\ hist' = [name |-> "blit_rect", n |-> 1]
    /\ UNCHANGED <<panicked, iter, items, src, out>>

Blit ==
    /\ hist = NoCall
    /\ \E pos \in Points :
        /\ grid' = blit(grid, pos, src)
        /\ args' = <<pos, extents(src)[1], extents(src)[2]>>
    /\ orig' = grid
    /\ hist' = [name |-> "blit", n |-> 1]
    /\ UNCHANGED <<panicked, iter, items, src, out>>

NextBlit ==
    \/ BlitRect
    \/ Blit

InitBlit ==
    \E d \in BlitDests, g \in BlitSources :
        /\ grid = d
        /\ orig = d
        /\ src = g
        /\ hist = NoCall
        /\ panicked = FALSE
        /\ iter = NoIter
        /\ items = <<>>
        /\ args = <<>>
        /\ out = <<>>

SpecBlit == InitBlit /\ [][NextBlit]_vars

----------------------------------------------------------------------------
(* GridConvert::blit_rect_convert.  SpecConvert: one call; args is its     *)
(* <<pos, start, end, convert>>, convert a function from the values of    *)
(* the source (U) to the values of the destination (T).                   *)

RECURSIVE blit_rect_convert_loop(_, _, _, _, _, _)
blit_rect_convert_loop(self, pos, g, min, pts, convert) ==
    IF pts = <<>> THEN self
    ELSE LET p == Head(pts)
             t == point_add(pos, <<p[1] - min[1], p[2] - min[2]>>)
             v == get_value(g, p)
         IN  blit_rect_convert_loop(IF v /= None THEN set_value(self, t, convert[v[1]]) ELSE self,
                                    pos, g, min, Tail(pts), convert)

\* blit_rect_convert copying the whole extents of the source: start and end
\* are not looked at
blit_rect_convert_unclipped(self, pos, g, start, end, convert) ==
    LET e == extents(g)
    IN  blit_rect_convert_loop(self, pos, g, e[1], BoxPoints(e[1], e[2]), convert)

blit_rect_convert(self, pos, g, start, end, convert) ==
    LET e == extents(g)
        min_xx == Max2(e[1][1], start[1])
        min_yy == Max2(e[1][2], start[2])
        max_xx == Min2(e[2][1], end[1])
        max_yy == Min2(e[2][2], end[2])
    IN  blit_rect_convert_loop(self, pos, g, <<min_xx, min_yy>>,
                               BoxPoints(<<min_xx, min_yy>>, <<max_xx, max_yy>>), convert)

\* the values a source holds, and the convert functions a caller passes: the
\* identity and the doubling
SourceVals == {0 - Label(p) : p \in Points \cup ((0..MaxCols) \X (0..MaxRows))}
Converts == {[v \in SourceVals |-> v], [v \in SourceVals |-> v + v]}

\* the destinations of the calls: dense grids of MaxRows rows, each empty or
\* of MaxCols cells, and the empty map
ConvertDests ==
    {LabelledDense(sh) : sh \in [1..MaxRows -> {0, MaxCols}]} \cup {LabelledSparse({})}

BlitRectConvert ==
    /\ hist = NoCall
    /\ \E pos \in Points, start \in Points, end \in Points, convert \in Converts :
        /\ grid' = blit_rect_convert(grid, pos, src, start, end, convert)
        /\ args' = <<pos, start, end, convert>>
    /\ orig' = grid
    /\ hist' = [name |-> "blit_rect_convert", n |-> 1]
    /\ UNCHANGED <<panicked, iter, items, src, out>>

NextConvert == BlitRectConvert

InitConvert ==
    \E d \in ConvertDests, g \in BlitSources :
        /\ grid = d
        /\ orig = d
        /\ src = g
        /\ hist = NoCall
        /\ panicked = FALSE
        /\ iter = NoIter
        /\ items = <<>>
        /\ args = <<>>
        /\ out = <<>>

SpecConvert == InitConvert /\ [][NextConvert]_vars

----------------------------------------------------------------------------
(* get_value and set_value of the two backends.  SpecSet: a caller-created *)
(* grid, at most one set_value(pos, value) (args is its <<pos, value>>,    *)
(* orig the grid before it) and then one get_value: of any position on    *)
(* the grid as created, of the position just set after a set_value (out   *)
(* is its <<pos, the Option<T> returned>>).  Neither method has a panicking *)
(* path: Vec::get, Vec::get_mut and HashMap::get return an Option, and     *)
(* `y as usize` of a negative i64 is at least 2^63, beyond every Vec.      *)

\* the value a caller sets: T::default(), which no cell of a caller-created
\* grid holds
SetVals == {DefaultVal}

SetValue ==
    /\ hist = NoCall
    /\ \E pos \in ArgPoints, value \in SetVals :
        /\ grid' = set_value(grid, pos, value)
        /\ args' = <<pos, value>>
    /\ orig' = grid
    /\ hist' = [name |-> "set_value", n |-> 1]
    /\ UNCHANGED <<panicked, iter, items, src, out>>

GetValue ==
    /\ hist.name \in {"", "set_value"}
    /\ \E pos \in (IF hist = NoCall THEN ArgPoints ELSE {args[1]}) :
            out' = <<pos, get_value(grid, pos)>>
    /\ hist' = [name |-> "get_value", n |-> hist.n + 1]
    /\ UNCHANGED <<grid, orig, panicked, iter, items, src, args>>

\* extents() of the grid as created or as a set_value left it; out is the
\* (min, max) returned
Extents ==
    /\ hist.name \in {"", "set_value"}
    /\ out' = extents(grid)
    /\ hist' = [name |-> "extents", n |-> hist.n + 1]
    /\ UNCHANGED <<grid, orig, panicked, iter, items, src, args>>

NextSet ==
    \/ SetValue
    \/ GetValue
    \/ Extents

SpecSet == Init /\ [][NextSet]_vars

----------------------------------------------------------------------------
(* SpecOps: a caller-created grid under any sequence of at most MaxOps     *)
(* calls of set_value, the flips, transpose, the rotations, fill, line and *)
(* blit.  orig is the grid as the caller created it, hist the name of the  *)
(* latest call and the number of calls made.                               *)

\* Grid::line: `for p in line { self.set_value(p, value) }`
RECURSIVE line_loop(_, _, _)
line_loop(self, pts, value) ==
    IF pts = <<>> THEN self
    ELSE line_loop(set_value(self, Head(pts), value), Tail(pts), value)

line(self, a, b, value) == line_loop(self, plot_line(a, b), value)

\* the sources blit copies from: a dense row of two cells and a map with one
\* key at a corner of Points
OpsSources ==
    {Negated(LabelledDense(<<2>>)), Negated(LabelledSparse({<<0 - MaxCoord, MaxCoord>>}))}

Op(name, r) ==
    /\ ~panicked
    /\ hist.n < MaxOps
    /\ grid' = r.g
    /\ panicked' = ~r.ok
    /\ hist' = [name |-> name, n |-> hist.n + 1]
    /\ UNCHANGED <<orig, iter, items, src, args, out>>

OpSet == \E pos \in ArgPoints, value \in SetVals :
            Op("set_value", [g |-> set_value(grid, pos, value), ok |-> TRUE])
OpFlipHorizontal == Op("flip_horizontal", flip_horizontal(grid))
OpFlipVertical == Op("flip_vertical", flip_vertical(grid))
OpTranspose == Op("transpose", transpose(grid))
OpRotate90 == Op("rotate_90_cw", rotate_90_cw(grid))
OpRotate180 == Op("rotate_180_cw", rotate_180_cw(grid))
OpRotate270 == Op("rotate_270_cw", rotate_270_cw(grid))
OpFill == \E pos \in Points, value \in SetVals :
            Op("fill", [g |-> fill(grid, pos, value), ok |-> TRUE])
OpLine == \E a \in Points, b \in Points, value \in SetVals :
            Op("line", [g |-> line(grid, a, b, value), ok |-> TRUE])
OpBlit == \E pos \in Points, g \in OpsSources :
            Op("blit", [g |-> blit(grid, pos, g), ok |-> TRUE])

NextOps ==
    \/ OpSet
    \/ OpFlipHorizontal
    \/ OpFlipVertical
    \/ OpTranspose
    \/ OpRotate90
    \/ OpRotate180
    \/ OpRotate270
    \/ OpFill
    \/ OpLine
    \/ OpBlit

SpecOps == Init /\ [][NextOps]_vars

----------------------------------------------------------------------------
(* Grid::points and GridIteratorHelper.  SpecPoints: points() on a         *)
(* caller-created grid, then next() calls; iter is the GridIteratorHelper  *)
(* (it owns a copy of the extents and borrows nothing), items the          *)
(* Option<Point> the next() calls returned, orig the grid points() was     *)
(* called on.  The grid stays the caller's: one set_value may come between *)
(* any two next() calls.                                                   *)

points(self) ==
    LET e == extents(self)
    IN  [extents |-> e, curr |-> Some(e[1])]

\* next() starting the next row at x = 0
GridIteratorHelper_next_row_from_zero(it) ==
    IF it.curr /= None
    THEN LET x == it.curr[1][1]
             y == it.curr[1][2]
             c == IF x < it.extents[2][1] THEN Some(<<x + 1, y>>)
                  ELSE IF y < it.extents[2][2] THEN Some(<<0, y + 1>>)
                  ELSE None
         IN  [it |-> [it EXCEPT !.curr = c], item |-> it.curr]
    ELSE [it |-> it, item |-> None]

GridIteratorHelper_next(it) ==
    IF it.curr /= None
    THEN LET x == it.curr[1][1]
             y == it.curr[1][2]
             c == IF x < it.extents[2][1] THEN Some(<<x + 1, y>>)
                  ELSE IF y < it.extents[2][2] THEN Some(<<it.extents[1][1], y + 1>>)
                  ELSE None
         IN  [it |-> [it EXCEPT !.curr = c], item |-> it.curr]
    ELSE [it |-> it, item |-> None]

PointsCall ==
    /\ hist = NoCall
    /\ iter' = points(grid)
    /\ hist' = [name |-> "points", n |-> 0]
    /\ UNCHANGED <<grid, orig, panicked, items, src, args, out>>

\* next() is called until it has returned MaxAfterEnd times None in a row
PointsNext ==
    /\ hist.name = "points"
    /\ IF Len(items) < MaxAfterEnd THEN TRUE
       ELSE items[Len(items) - MaxAfterEnd + 1] /= None
    /\ LET r == GridIteratorHelper_next(iter)
       IN  /\ iter' = r.it
           /\ items' = Append(items, r.item)
    /\ hist' = [hist EXCEPT !.n = @ + 1]
    /\ UNCHANGED <<grid, orig, panicked, src, args, out>>

PointsSet ==
    /\ hist.name = "points"
    /\ args = <<>>
    /\ \E pos \in Points, value \in SetVals :
        /\ grid' = set_value(grid, pos, value)
        /\ args' = <<pos, value>>
    /\ UNCHANGED <<orig, hist, panicked, iter, items, src, out>>

NextPoints ==
    \/ PointsCall
    \/ PointsNext
    \/ PointsSet

SpecPoints == Init /\ [][NextPoints]_vars

----------------------------------------------------------------------------
(* The hex coordinate conversions.  A Vec3 [x, y, z] is <<x, y, z>>.       *)
(* SpecHexConv: one conversion of a point a caller passes (args is <<the   *)
(* point>>, out the result), then the conversion back applied to out.      *)
(* The coordinates are i64; the model keeps them far from the ends of the  *)
(* i64 range, where the sums below are those of the integers.              *)

\* i64::rem_euclid: the remainder in 0..m-1
rem_euclid(a, m) == a % m

\* the `%` of Rust: the remainder has the sign of a
rem_truncated(a, m) == IF a >= 0 THEN a % m ELSE 0 - ((0 - a) % m)

\* the `/` of Rust: the quotient rounded towards zero
div_truncated(a, b) ==
    IF (a >= 0) = (b > 0) THEN Abs(a) \div Abs(b) ELSE 0 - (Abs(a) \div Abs(b))

axial_to_cube(axial) ==
    LET x == axial[1]
        z == axial[2]
        y == 0 - x - z
    IN  <<x, y, z>>

cube_to_axial(cube) == <<cube[1], cube[3]>>

cube_to_oddr(cube) ==
    LET col == cube[1] + div_truncated(cube[3] - rem_euclid(cube[3], 2), 2)
        row == cube[3]
    IN  <<col, row>>

\* oddr_to_cube taking the parity of the row with `%`
oddr_to_cube_rem(oddr) ==
    LET x == oddr[1] - div_truncated(oddr[2] - rem_truncated(oddr[2], 2), 2)
        z == oddr[2]
        y == 0 - x - z
    IN  <<x, y, z>>

oddr_to_cube(oddr) ==
    LET x == oddr[1] - div_truncated(oddr[2] - rem_euclid(oddr[2], 2), 2)
        z == oddr[2]
        y == 0 - x - z
    IN  <<x, y, z>>

\* the points and the valid cube triples a caller passes
HexCoord == (0 - MaxHex)..MaxHex
HexPoints == HexCoord \X HexCoord
Cubes == {<<x, 0 - x - z, z>> : x \in HexCoord, z \in HexCoord}

\* one conversion: of an input a caller passes when nothing was called yet,
\* of the result of the conversion `after` otherwise
Convert(name, after, inputs, result, input) ==
    /\ \/ /\ hist = NoCall
          /\ input \in inputs
          /\ args' = <<input>>
          /\ out' = result
       \/ /\ hist = [name |-> after, n |-> 1]
          /\ input = out
          /\ args' = args
          /\ out' = result
    /\ hist' = [name |-> name, n |-> hist.n + 1]
    /\ UNCHANGED <<grid, orig, panicked, iter, items, src>>

HexInputs == IF hist = NoCall THEN HexPoints \cup Cubes ELSE {out}

OddrToCube == \E p \in HexInputs :
    Convert("oddr_to_cube", "cube_to_oddr", HexPoints, oddr_to_cube(p), p)
CubeToOddr == \E c \in HexInputs :
    Convert("cube_to_oddr", "oddr_to_cube", Cubes, cube_to_oddr(c), c)
AxialToCube == \E a \in HexInputs :
    Convert("axial_to_cube", "cube_to_axial", HexPoints, axial_to_cube(a), a)
CubeToAxial == \E c \in HexInputs :
    Convert("cube_to_axial", "axial_to_cube", Cubes, cube_to_axial(c), c)

NextHexConv ==
    \/ OddrToCube
    \/ CubeToOddr
    \/ AxialToCube
    \/ CubeToAxial

SpecHexConv == InitLine /\ [][NextHexConv]_vars

----------------------------------------------------------------------------
(* impl HexGrid for HashMap<Vec3, T>: a hex grid is the record             *)
(*     [kind |-> "hex", rows |-> <<>>, cells |-> [cube keys -> T]]         *)
(* Every transform builds new_grid by inserting each value under its new   *)
(* key, clears the map and refills it: HashMap_rekey.                      *)

Hex(cells) == [kind |-> "hex", rows |-> <<>>, cells |-> cells]

vec_add(a, b) == <<a[1] + b[1], a[2] + b[2], a[3] + b[3]>>
vec_sub(a, b) == <<a[1] - b[1], a[2] - b[2], a[3] - b[3]>>

HexGrid_oddr_extents(cells) ==
    LET xs == {cube_to_oddr(p)[1] : p \in DOMAIN cells}
        ys == {cube_to_oddr(p)[2] : p \in DOMAIN cells}
        min_x == IF xs = {} THEN 0 ELSE SetMin(xs)
        min_y == IF ys = {} THEN 0 ELSE SetMin(ys)
        max_x == IF xs = {} THEN 0 ELSE SetMax(xs)
        max_y == IF ys = {} THEN 0 ELSE SetMax(ys)
    IN  <<<<min_x, min_y>>, <<max_x, max_y>>>>

\* the pivot of flip_x, flip_y, flip_z and of the rotations
HexGrid_pivot(cells) ==
    LET e == HexGrid_oddr_extents(cells)
        mid_x == div_truncated(e[2][1] - e[1][1] + 1, 2)
        mid_y == div_truncated(e[2][2] - e[1][2] + 1, 2)
    IN  oddr_to_cube(<<mid_x, mid_y>>)

HexGrid_flip_horizontal(cells) ==
    LET e == HexGrid_oddr_extents(cells)
        min_x == e[1][1]
        max_x == e[2][1]
        new == [k \in DOMAIN cells |->
                    LET p == cube_to_oddr(k)
                    IN  oddr_to_cube(<<max_x - (p[1] - min_x), p[2]>>)]
    IN  HashMap_rekey(cells, new)

\* flip_vertical writing the new row into z and leaving x and y as they were
HexGrid_flip_vertical_stale_xy(cells) ==
    LET e == HexGrid_oddr_extents(cells)
        min_y == e[1][2]
        max_y == e[2][2]
        new == [k \in DOMAIN cells |->
                    LET p == cube_to_oddr(k)
                    IN  <<k[1], k[2], max_y - (p[2] - min_y)>>]
    IN  HashMap_rekey(cells, new)

HexGrid_flip_vertical(cells) ==
    LET e == HexGrid_oddr_extents(cells)
        min_y == e[1][2]
        max_y == e[2][2]
        new == [k \in DOMAIN cells |->
                    LET p == cube_to_oddr(k)
                    IN  oddr_to_cube(<<p[1], max_y - (p[2] - min_y)>>)]
    IN  HashMap_rekey(cells, new)

HexGrid_flip_x(cells) ==
    LET pivot == HexGrid_pivot(cells)
        new == [k \in DOMAIN cells |->
                    LET p == vec_sub(k, pivot) IN vec_add(<<p[1], p[3], p[2]>>, pivot)]
    IN  HashMap_rekey(cells, new)

HexGrid_flip_y(cells) ==
    LET pivot == HexGrid_pivot(cells)
        new == [k \in DOMAIN cells |->
                    LET p == vec_sub(k, pivot) IN vec_add(<<p[3], p[2], p[1]>>, pivot)]
    IN  HashMap_rekey(cells, new)

HexGrid_flip_z(cells) ==
    LET pivot == HexGrid_pivot(cells)
        new == [k \in DOMAIN cells |->
                    LET p == vec_sub(k, pivot) IN vec_add(<<p[2], p[1], p[3]>>, pivot)]
    IN  HashMap_rekey(cells, new)

HexGrid_rotate_60_cw(cells) ==
    LET pivot == HexGrid_pivot(cells)
        new == [k \in DOMAIN cells |->
                    LET p == vec_sub(k, pivot) IN vec_add(<<0 - p[3], 0 - p[1], 0 - p[2]>>, pivot)]
    IN  HashMap_rekey(cells, new)

HexGrid_rotate_120_cw(cells) ==
    LET pivot == HexGrid_pivot(cells)
        new == [k \in DOMAIN cells |->
                    LET p == vec_sub(k, pivot) IN vec_add(<<p[2], p[3], p[1]>>, pivot)]
    IN  HashMap_rekey(cells, new)

HexGrid_rotate_180_cw(cells) ==
    LET pivot == HexGrid_pivot(cells)
        new == [k \in DOMAIN cells |->
                    LET p == vec_sub(k, pivot) IN vec_add(<<0 - p[1], 0 - p[2], 0 - p[3]>>, pivot)]
    IN  HashMap_rekey(cells, new)

HexGrid_rotate_240_cw(cells) ==
    LET pivot == HexGrid_pivot(cells)
        new == [k \in DOMAIN cells |->
                    LET p == vec_sub(k, pivot) IN vec_add(<<p[3], p[1], p[2]>>, pivot)]
    IN  HashMap_rekey(cells, new)

HexGrid_rotate_300_cw(cells) ==
    LET pivot == HexGrid_pivot(cells)
        new == [k \in DOMAIN cells |->
                    LET p == vec_sub(k, pivot) IN vec_add(<<0 - p[2], 0 - p[3], 0 - p[1]>>, pivot)]
    IN  HashMap_rekey(cells, new)

\* the hex grids a caller creates: at most two cells, at valid cube keys
\* around the origin, each holding a value of its own
HexKeys == {<<x, 0 - x - z, z>> : x \in Coord, z \in Coord}
HexKeySets == {{a, b} : a \in HexKeys, b \in HexKeys} \cup {{}}
HexLabel(c) == (c[3] + MaxCoord) * (MaxCoord + MaxCoord + 1) + (c[1] + MaxCoord) + 1
LabelledHex(K) == Hex([c \in K |-> HexLabel(c)])

InitHex == \E K \in HexKeySets : Start(LabelledHex(K))

(* SpecHex: a caller-created hex grid under any sequence of at most         *)
(* MaxOps transform calls; orig is the grid as created, hist the latest    *)
(* call and the number of calls.  The caller may call the coordinate       *)
(* conversions instead: they are functions of their argument and touch no  *)
(* grid, so a transform after them would start from the grid as created,   *)
(* as a transform called first does.                                       *)
ConversionNames == {"oddr_to_cube", "cube_to_oddr", "axial_to_cube", "cube_to_axial"}

HexOp(name, cells) ==
    /\ hist.name \notin ConversionNames
    /\ hist.n < MaxOps
    /\ grid' = Hex(cells)
    /\ hist' = [name |-> name, n |-> hist.n + 1]
    /\ UNCHANGED <<orig, panicked, iter, items, src, args, out>>

HexFlipHorizontal == HexOp("flip_horizontal", HexGrid_flip_horizontal(grid.cells))
HexFlipVertical == HexOp("flip_vertical", HexGrid_flip_vertical(grid.cells))
HexFlipX == HexOp("flip_x", HexGrid_flip_x(grid.cells))
HexFlipY == HexOp("flip_y", HexGrid_flip_y(grid.cells))
HexFlipZ == HexOp("flip_z", HexGrid_flip_z(grid.cells))
HexRotate60 == HexOp("rotate_60_cw", HexGrid_rotate_60_cw(grid.cells))
HexRotate120 == HexOp("rotate_120_cw", HexGrid_rotate_120_cw(grid.cells))
HexRotate180 == HexOp("rotate_180_cw", HexGrid_rotate_180_cw(grid.cells))
HexRotate240 == HexOp("rotate_240_cw", HexGrid_rotate_240_cw(grid.cells))
HexRotate300 == HexOp("rotate_300_cw", HexGrid_rotate_300_cw(grid.cells))

NextHex ==
    \/ HexFlipHorizontal
    \/ HexFlipVertical
    \/ HexFlipX
    \/ HexFlipY
    \/ HexFlipZ
    \/ HexRotate60
    \/ HexRotate120
    \/ HexRotate180
    \/ HexRotate240
    \/ HexRotate300
    \/ OddrToCube
    \/ CubeToOddr
    \/ AxialToCube
    \/ CubeToAxial

SpecHex == InitHex /\ [][NextHex]_vars

(* SpecHexRun: a caller-created hex grid under a run of at most MaxHexRun   *)
(* calls of one rotation; orig is the grid as created, hist the rotation   *)
(* and the number of calls.                                                *)
HexRun(name, cells) ==
    /\ hist.name \in {"", name}
    /\ hist.n < MaxHexRun
    /\ grid' = Hex(cells)
    /\ hist' = [name |-> name, n |-> hist.n + 1]
    /\ UNCHANGED <<orig, panicked, iter, items, src, args, out>>

RunRotate60 == HexRun("rotate_60_cw", HexGrid_rotate_60_cw(grid.cells))
RunRotate120 == HexRun("rotate_120_cw", HexGrid_rotate_120_cw(grid.cells))
RunRotate180 == HexRun("rotate_180_cw", HexGrid_rotate_180_cw(grid.cells))
RunRotate240 == HexRun("rotate_240_cw", HexGrid_rotate_240_cw(grid.cells))
RunRotate300 == HexRun("rotate_300_cw", HexGrid_rotate_300_cw(grid.cells))

NextHexRun ==
    \/ RunRotate60
    \/ RunRotate120
    \/ RunRotate180
    \/ RunRotate240
    \/ RunRotate300

SpecHexRun == InitHex /\ [][NextHexRun]_vars

----------------------------------------------------------------------------
(* grid_to_graph.  An UnGraphMap<Point, i64> is the record                 *)
(*     [nodes |-> the set of nodes, edges |-> [{a, b} |-> weight]]         *)
(* SpecGraph: one grid_to_graph(grid, is_node, get_edge, directions) call  *)
(* on a caller-created grid; args is its <<is_node, get_edge, directions>>, *)
(* out the graph returned (<<>> when none was), items the calls it made on *)
(* the grid and on the two function pointers, in order.                    *)

NORTH == <<0, 0 - 1>>
NORTH_EAST == <<1, 0 - 1>>
EAST == <<1, 0>>
SOUTH_EAST == <<1, 1>>
SOUTH == <<0, 1>>
SOUTH_WEST == <<0 - 1, 1>>
WEST == <<0 - 1, 0>>
NORTH_WEST == <<0 - 1, 0 - 1>>

DIRECTIONS == <<NORTH, EAST, SOUTH, WEST>>
DIRECTIONS_INCL_DIAGONALS ==
    <<NORTH, NORTH_EAST, EAST, SOUTH_EAST, SOUTH, SOUTH_WEST, WEST, NORTH_WEST>>

\* UnGraphMap::new, add_node (a node already there is kept) and add_edge (the
\* end nodes are added, the weight of an edge already there is replaced)
NewGraph == [nodes |-> {}, edges |-> <<>>]
add_node(graph, n) == [graph EXCEPT !.nodes = @ \cup {n}]
add_edge(graph, a, b, weight) ==
    [nodes |-> graph.nodes \cup {a, b},
     edges |-> [e \in (DOMAIN graph.edges) \cup {{a, b}} |->
                    IF e = {a, b} THEN weight ELSE graph.edges[e]]]

\* the is_node functions a caller passes: every cell, the cells holding an
\* odd value, the cells holding more than the value of [0, 0], no cell
IsNodeFns == {"every", "odd", "above_origin", "none"}
is_node(f, p, c) ==
    CASE f = "every" -> TRUE
      [] f = "odd" -> c % 2 = 1
      [] f = "above_origin" -> c > Label(<<0, 0>>)
      [] f = "none" -> FALSE

\* the get_edge functions a caller passes: weight 1 between any two nodes;
\* the sum of the two values; the value of the cell the edge starts from; an
\* edge towards the larger value only, weighted by the difference; no edge
GetEdgeFns == {"one", "sum", "from", "uphill", "never"}
get_edge(f, p, c, np, nc) ==
    CASE f = "one" -> Some(1)
      [] f = "sum" -> Some(c + nc)
      [] f = "from" -> Some(c)
      [] f = "uphill" -> IF nc > c THEN Some(nc - c) ELSE None
      [] f = "never" -> None

\* st, the graph and the calls made so far, has a value.  TLC evaluates an
\* argument where it is first used: asking this at the head of an iteration
\* keeps the evaluations of the iterations from nesting in one another.
Evaluated(st) == st.graph = st.graph /\ st.calls = st.calls

\* the body of the loop over the directions with no test of np against the
\* extents
grid_to_graph_neighbour_unbounded(st, g, p, c, d, e, isn, gete) ==
    LET np == point_add(p, d)
        nc == get_value(g, np)
        node == nc /= None /\ is_node(isn, np, nc[1])
        w == get_edge(gete, p, c, np, nc[1])
        calls == <<(<<"get_value", np>>)>>
                 \o (IF nc /= None THEN <<(<<"is_node", np>>)>> ELSE <<>>)
                 \o (IF node THEN <<(<<"get_edge", p, np>>)>> ELSE <<>>)
    IN  [graph |-> IF node /\ w /= None
                   THEN add_edge(add_node(st.graph, np), p, np, w[1])
                   ELSE st.graph,
         calls |-> st.calls \o calls]

\* the body of `for d in &directions`, for the direction d from the node p
\* holding c
grid_to_graph_neighbour(st, g, p, c, d, e, isn, gete) ==
    LET np == point_add(p, d)
        inside == /\ np[1] >= e[1][1] /\ np[1] <= e[2][1]
                  /\ np[2] >= e[1][2] /\ np[2] <= e[2][2]
        nc == get_value(g, np)
        node == nc /= None /\ is_node(isn, np, nc[1])
        w == get_edge(gete, p, c, np, nc[1])
        calls == IF ~inside THEN <<>>
                 ELSE <<(<<"get_value", np>>)>>
                      \o (IF nc /= None THEN <<(<<"is_node", np>>)>> ELSE <<>>)
                      \o (IF node THEN <<(<<"get_edge", p, np>>)>> ELSE <<>>)
    IN  [graph |-> IF inside /\ node /\ w /= None
                   THEN add_edge(add_node(st.graph, np), p, np, w[1])
                   ELSE st.graph,
         calls |-> st.calls \o calls]

\* `for d in &directions`: st is the graph and the calls made so far
RECURSIVE grid_to_graph_directions(_, _, _, _, _, _, _, _)
grid_to_graph_directions(st, g, p, c, ds, e, isn, gete) ==
    IF Evaluated(st) /\ ds = <<>> THEN st
    ELSE grid_to_graph_directions(
             grid_to_graph_neighbour(st, g, p, c, Head(ds), e, isn, gete),
             g, p, c, Tail(ds), e, isn, gete)

\* `for y in min[1]..=max[1] { for x in min[0]..=max[0] {`
RECURSIVE grid_to_graph_points(_, _, _, _, _, _, _)
grid_to_graph_points(st, g, pts, directions, e, isn, gete) ==
    IF Evaluated(st) /\ pts = <<>> THEN st
    ELSE LET p == Head(pts)
             c == get_value(g, p)
             node == c /= None /\ is_node(isn, p, c[1])
             calls == <<(<<"get_value", p>>)>>
                      \o (IF c /= None THEN <<(<<"is_node", p>>)>> ELSE <<>>)
             here == [graph |-> IF node THEN add_node(st.graph, p) ELSE st.graph,
                      calls |-> st.calls \o calls]
             next == IF node
                     THEN grid_to_graph_directions(here, g, p, c[1], directions, e, isn, gete)
                     ELSE here
         IN  grid_to_graph_points(next, g, Tail(pts), directions, e, isn, gete)

\* grid_to_graph taking the four directions for a connectivity it does not know
grid_to_graph_default_4(g, isn, gete, directions) ==
    LET ds == IF directions = 8 THEN DIRECTIONS_INCL_DIAGONALS ELSE DIRECTIONS
        e == extents(g)
        st == grid_to_graph_points([graph |-> NewGraph, calls |-> <<(<<"extents">>)>>],
                                   g, BoxPoints(e[1], e[2]), ds, e, isn, gete)
    IN  [graph |-> Some(st.graph), calls |-> st.calls, ok |-> TRUE]

grid_to_graph(g, isn, gete, directions) ==
    IF directions \notin {4, 8}
    THEN [graph |-> None, calls |-> <<>>, ok |-> FALSE]
    ELSE LET ds == IF directions = 4 THEN DIRECTIONS ELSE DIRECTIONS_INCL_DIAGONALS
             e == extents(g)
             st == grid_to_graph_points([graph |-> NewGraph, calls |-> <<(<<"extents">>)>>],
                                        g, BoxPoints(e[1], e[2]), ds, e, isn, gete)
         IN  [graph |-> Some(st.graph), calls |-> st.calls, ok |-> TRUE]

\* the connectivity values a caller passes: 4, 8 and others
Connectivities == 0..(8 + MaxOther)

\* the grids a caller passes: the dense grids, and the maps of at most MaxCells
\* keys among [0, 0] and its eight neighbours
GraphKeys == {<<0, 0>>} \cup {DIRECTIONS_INCL_DIAGONALS[i] : i \in DOMAIN DIRECTIONS_INCL_DIAGONALS}
GraphGrids ==
    {LabelledDense(sh) : sh \in DenseShapes}
        \cup {LabelledSparse(K) : K \in {Ks \in KeySets : Ks \subseteq GraphKeys}}

InitGraph == \E g \in GraphGrids : Start(g)

GridToGraph ==
    /\ hist = NoCall
    /\ \E isn \in IsNodeFns, gete \in GetEdgeFns, directions \in Connectivities :
        LET r == grid_to_graph(grid, isn, gete, directions)
        IN  /\ out' = r.graph
            /\ items' = r.calls
            /\ panicked' = ~r.ok
            /\ args' = <<isn, gete, directions>>
    /\ hist' = [name |-> "grid_to_graph", n |-> 1]
    /\ UNCHANGED <<grid, orig, iter, src>>

NextGraph == GridToGraph

SpecGraph == InitGraph /\ [][NextGraph]_vars

----------------------------------------------------------------------------
(* DIRECTION_MAP.  SpecDirections: a caller looking up at most MaxLookups  *)
(* keys of the map one after the other; args is the key of the latest      *)
(* lookup, out the Option it got, items the displacements got so far.      *)

\* HashMap::insert: the value of a key inserted again is replaced
map_insert(map, k, v) ==
    [x \in (DOMAIN map) \cup {k} |-> IF x = k THEN v ELSE map[x]]

\* the inserts of the initialiser, in order
DIRECTION_MAP_inserts ==
    << <<"U", NORTH>>, <<"D", SOUTH>>, <<"R", EAST>>, <<"L", WEST>>,
       <<"N", NORTH>>, <<"S", SOUTH>>, <<"E", EAST>>, <<"W", WEST>>,
       <<"NW", NORTH_WEST>>, <<"SW", SOUTH_WEST>>, <<"NE", NORTH_WEST>>,
       <<"SE", SOUTH_EAST>> >>

RECURSIVE map_of_inserts(_, _)
map_of_inserts(map, ins) ==
    IF ins = <<>> THEN map
    ELSE map_of_inserts(map_insert(map, Head(ins)[1], Head(ins)[2]), Tail(ins))

DIRECTION_MAP == map_of_inserts(<<>>, DIRECTION_MAP_inserts)

\* DIRECTION_MAP.get(key)
DIRECTION_MAP_get(key) ==
    IF key \in DOMAIN DIRECTION_MAP THEN Some(DIRECTION_MAP[key]) ELSE None

\* the keys a caller asks for: the keys of the map and one that is none
LookupKeys == {"U", "D", "R", "L", "N", "S", "E", "W", "NW", "SW", "NE", "SE", "X"}

Lookup ==
    /\ hist.name \in {"", "get"}
    /\ hist.n < MaxLookups
    /\ \E key \in LookupKeys :
        /\ args' = key
        /\ out' = DIRECTION_MAP_get(key)
        /\ items' = items \o DIRECTION_MAP_get(key)
    /\ hist' = [name |-> "get", n |-> hist.n + 1]
    /\ UNCHANGED <<grid, orig, panicked, iter, src>>

NextDirections == Lookup

SpecDirections == InitLine /\ [][NextDirections]_vars

----------------------------------------------------------------------------
(* SpecLineSteps: one plot_line(a, b) call turn by turn of its loop.  args  *)
(* is <<a, b>>, iter the registers x0, y0, err of the loop and whether it   *)
(* is still running, out the points pushed so far.  The turns of a running  *)
(* loop are taken one after the other (SpecLineStepsFair).                  *)

\* the registers before the first turn
plot_line_enter(a, b) ==
    [x0 |-> a[1], y0 |-> a[2],
     err |-> Abs(b[1] - a[1]) + (0 - Abs(b[2] - a[2])),
     live |-> TRUE]

\* one turn of the loop that moves along one axis alone
plot_line_turn_no_diagonal(r, a, b) ==
    LET dx == Abs(b[1] - a[1])
        sx == IF a[1] < b[1] THEN 1 ELSE 0 - 1
        dy == 0 - Abs(b[2] - a[2])
        sy == IF a[2] < b[2] THEN 1 ELSE 0 - 1
        e2 == 2 * r.err
        stepx == e2 >= dy
        stepy == e2 <= dx /\ ~stepx
    IN  IF r.x0 = b[1] /\ r.y0 = b[2] THEN [r EXCEPT !.live = FALSE]
        ELSE [x0 |-> IF stepx THEN r.x0 + sx ELSE r.x0,
              y0 |-> IF stepy THEN r.y0 + sy ELSE r.y0,
              err |-> r.err + (IF stepx THEN dy ELSE 0) + (IF stepy THEN dx ELSE 0),
              live |-> TRUE]

\* one turn of `loop { ... }` after its push: the registers it leaves, the
\* loop over when it took the break
plot_line_turn(r, a, b) ==
    LET dx == Abs(b[1] - a[1])
        sx == IF a[1] < b[1] THEN 1 ELSE 0 - 1
        dy == 0 - Abs(b[2] - a[2])
        sy == IF a[2] < b[2] THEN 1 ELSE 0 - 1
        e2 == 2 * r.err
        stepx == e2 >= dy
        stepy == e2 <= dx
    IN  IF r.x0 = b[1] /\ r.y0 = b[2] THEN [r EXCEPT !.live = FALSE]
        ELSE [x0 |-> IF stepx THEN r.x0 + sx ELSE r.x0,
              y0 |-> IF stepy THEN r.y0 + sy ELSE r.y0,
              err |-> r.err + (IF stepx THEN dy ELSE 0) + (IF stepy THEN dx ELSE 0),
              live |-> TRUE]

\* the turns after which the model stops following a loop
LineTurns == 4 * MaxLine + 4

PlotLineEnter ==
    /\ hist = NoCall
    /\ \E a \in LinePoints, b \in LinePoints :
        /\ args' = <<a, b>>
        /\ iter' = plot_line_enter(a, b)
    /\ out' = <<>>
    /\ hist' = [name |-> "plot_line_loop", n |-> 0]
    /\ UNCHANGED <<grid, orig, panicked, items, src>>

PlotLineTurn ==
    /\ hist.name = "plot_line_loop"
    /\ iter.live
    /\ hist.n < LineTurns
    /\ out' = Append(out, <<iter.x0, iter.y0>>)
    /\ iter' = plot_line_turn(iter, args[1], args[2])
    /\ hist' = [hist EXCEPT !.n = @ + 1]
    /\ UNCHANGED <<grid, orig, panicked, items, src, args>>

NextLineSteps == PlotLineEnter \/ PlotLineTurn

SpecLineSteps == InitLine /\ [][NextLineSteps]_vars

SpecLineStepsFair == SpecLineSteps /\ WF_vars(PlotLineTurn)

----------------------------------------------------------------------------
(* egcd, mod_inv, chinese_remainder, generic over a signed integer T.  A T  *)
(* is modelled by [bits, checked]: its width, and whether the build checks  *)
(* its arithmetic for overflow (a debug build panics with "attempt to ...   *)
(* with overflow", a release build wraps).  A number that has panicked is   *)
(* T_panic(T), which no T holds; the arithmetic hands it on.                *)
(* SpecCrt: one chinese_remainder call; args is its <<residues, modulii,    *)
(* T>>, out the Option it returned, panicked whether it panicked.           *)

T_min(T) == 0 - 2 ^ (T.bits - 1)
T_max(T) == 2 ^ (T.bits - 1) - 1
T_panic(T) == 2 ^ T.bits

\* the T an arithmetic result v becomes
T_fit(T, v) ==
    IF T_min(T) <= v /\ v <= T_max(T) THEN v
    ELSE IF T.checked THEN T_panic(T)
    ELSE ((v - T_min(T)) % (2 ^ T.bits)) + T_min(T)

T_add(T, a, b) == IF T_panic(T) \in {a, b} THEN T_panic(T) ELSE T_fit(T, a + b)
T_sub(T, a, b) == IF T_panic(T) \in {a, b} THEN T_panic(T) ELSE T_fit(T, a - b)
T_mul(T, a, b) == IF T_panic(T) \in {a, b} THEN T_panic(T) ELSE T_fit(T, a * b)

\* `/` and `%` panic on a zero divisor and on MIN / -1 in every build
T_div(T, a, b) ==
    IF T_panic(T) \in {a, b} \/ b = 0 \/ (a = T_min(T) /\ b = 0 - 1) THEN T_panic(T)
    ELSE div_truncated(a, b)
T_rem(T, a, b) ==
    IF T_panic(T) \in {a, b} \/ b = 0 \/ (a = T_min(T) /\ b = 0 - 1) THEN T_panic(T)
    ELSE IF a >= 0 THEN a % Abs(b) ELSE 0 - ((0 - a) % Abs(b))

\* <<gcd, x, y>>
RECURSIVE egcd(_, _, _)
egcd(T, a, b) ==
    IF T_panic(T) \in {a, b} THEN <<T_panic(T), T_panic(T), T_panic(T)>>
    ELSE IF a = 0 THEN <<b, 0, 1>>
    ELSE LET r == egcd(T, T_rem(T, b, a), a)
         IN  <<r[1], T_sub(T, r[3], T_mul(T, T_div(T, b, a), r[2])), r[2]>>

mod_inv(T, x, n) ==
    LET r == egcd(T, x, n)
    IN  IF r[1] = T_panic(T) THEN Some(T_panic(T))
        ELSE IF r[1] = 1 THEN Some(T_rem(T, T_add(T, T_rem(T, r[2], n), n), n))
        ELSE None

\* modulii.iter().product(): the product from the left, starting from one
RECURSIVE product(_, _, _)
product(T, acc, s) ==
    IF s = <<>> THEN acc ELSE product(T, T_mul(T, acc, Head(s)), Tail(s))

\* the loop over residues.iter().zip(modulii): the sum, or None where `?`
\* returned
RECURSIVE chinese_remainder_loop(_, _, _, _, _)
chinese_remainder_loop(T, residues, modulii, prod, sum) ==
    IF residues = <<>> \/ modulii = <<>> \/ sum = T_panic(T) THEN Some(sum)
    ELSE LET residue == Head(residues)
             modulus == Head(modulii)
             p == T_div(T, prod, modulus)
             inv == mod_inv(T, p, modulus)
         IN  IF inv = None THEN None
             ELSE chinese_remainder_loop(
                      T, Tail(residues), Tail(modulii), prod,
                      T_add(T, sum, T_mul(T, T_mul(T, residue, inv[1]), p)))

\* Some(T_panic(T)) when the call panicked
chinese_remainder(T, residues, modulii) ==
    LET prod == product(T, 1, modulii)
        sum == chinese_remainder_loop(T, residues, modulii, prod, 0)
    IN  IF sum = None THEN None ELSE Some(T_rem(T, sum[1], prod))

\* the T of a caller: i8 and i16, in a debug and in a release build
Ts == {[bits |-> b, checked |-> c] : b \in {8, 16}, c \in BOOLEAN}

\* the lists a caller passes: at most MaxCrt moduli from 1 to MaxModulus, and
\* as many residues, each from 0 to below its modulus
ModuliLists == UNION {[1..n -> 1..MaxModulus] : n \in 0..MaxCrt}
ResidueLists(modulii) ==
    {r \in [1..Len(modulii) -> 0..(MaxModulus - 1)] : \A i \in 1..Len(modulii) : r[i] < modulii[i]}

ChineseRemainder ==
    /\ hist = NoCall
    /\ \E T \in Ts, modulii \in ModuliLists :
        \E residues \in ResidueLists(modulii) :
            LET r == chinese_remainder(T, residues, modulii)
            IN  /\ panicked' = (r = Some(T_panic(T)))
                /\ out' = IF r = Some(T_panic(T)) THEN None ELSE r
                /\ args' = <<residues, modulii, T>>
    /\ hist' = [name |-> "chinese_remainder", n |-> 1]
    /\ UNCHANGED <<grid, orig, iter, items, src>>

NextCrt == ChineseRemainder

SpecCrt == InitLine /\ [][NextCrt]_vars

----------------------------------------------------------------------------
(* src/07/main.rs: sum_bags, part2.  The rules are the sequence of          *)
(* <<node, neighbors>>, neighbors a sequence of <<count, colour>>.          *)
(* SpecBags: one sum_bags or part2 call on the caller's rules; items is the *)
(* rules, args the bag asked for, out the number returned, panicked whether *)
(* the recursion ran out of stack.  The numbers are those of the integers:  *)
(* the model stays far inside usize and i64.                                *)

\* the frames of sum_bags the stack is taken to hold: a recursion on rules
\* without a cycle is never deeper than one frame per rule and one more
StackFrames(rules) == Len(rules) + 1

\* sum_bags at depth frames of the stack; a negative number when the stack
\* overflowed
RECURSIVE sum_bags_frame(_, _, _)
RECURSIVE sum_bags_neighbors(_, _, _, _)
sum_bags_frame(bag, rules, depth) ==
    IF depth > StackFrames(rules) THEN 0 - 1
    ELSE LET found == {i \in 1..Len(rules) : rules[i][1] = bag}
         IN  IF found = {} THEN 0
             ELSE sum_bags_neighbors(rules[SetMin(found)][2], rules, depth, 1)

\* `for (c, n) in neighbors { tot += c * sum_bags(n, rules); }`
sum_bags_neighbors(neighbors, rules, depth, tot) ==
    IF neighbors = <<>> THEN tot
    ELSE LET c == Head(neighbors)[1]
             n == Head(neighbors)[2]
             inner == sum_bags_frame(n, rules, depth + 1)
         IN  IF inner < 0 THEN inner
             ELSE sum_bags_neighbors(Tail(neighbors), rules, depth, tot + c * inner)

sum_bags(bag, rules) == sum_bags_frame(bag, rules, 1)

\* part2 counting the shiny gold bag too
part2_with_outer_bag(rules) == sum_bags("shiny gold", rules)

\* a negative number below -1 when the stack overflowed
part2(rules) ==
    LET s == sum_bags("shiny gold", rules)
    IN  IF s < 0 THEN 0 - 2 ELSE s - 1

\* the colours of the rules of the model, and the rule lists a caller
\* passes: at most MaxRules rules, each of a colour and of at most MaxCount
\* bags of each colour
Colours == {"shiny gold", "dark red", "faded blue"}
ColourOrder == <<"shiny gold", "dark red", "faded blue">>
RECURSIVE NeighborsOf(_, _)
NeighborsOf(counts, i) ==
    IF i > Len(ColourOrder) THEN <<>>
    ELSE (IF counts[ColourOrder[i]] > 0
          THEN <<(<<counts[ColourOrder[i]], ColourOrder[i]>>)>>
          ELSE <<>>) \o NeighborsOf(counts, i + 1)
Rules == {<<node, NeighborsOf(counts, 1)>> : node \in Colours, counts \in [Colours -> 0..MaxCount]}
RuleLists == UNION {[1..n -> Rules] : n \in 0..MaxRules}

InitBags ==
    \E rules \in RuleLists :
        /\ items = rules
        /\ grid = NoGrid
        /\ orig = NoGrid
        /\ src = NoGrid
        /\ hist = NoCall
        /\ panicked = FALSE
        /\ iter = NoIter
        /\ args = <<>>
        /\ out = <<>>

SumBags ==
    /\ hist = NoCall
    /\ \E bag \in Colours \cup {"dotted black"} :
        /\ args' = bag
        /\ out' = sum_bags(bag, items)
        /\ panicked' = (sum_bags(bag, items) < 0)
    /\ hist' = [name |-> "sum_bags", n |-> 1]
    /\ UNCHANGED <<grid, orig, iter, items, src>>

Part2 ==
    /\ hist = NoCall
    /\ args' = "shiny gold"
    /\ out' = part2(items)
    /\ panicked' = (part2(items) < 0 - 1)
    /\ hist' = [name |-> "part2", n |-> 1]
    /\ UNCHANGED <<grid, orig, iter, items, src>>

NextBags == SumBags \/ Part2

SpecBags == InitBags /\ [][NextBags]_vars

----------------------------------------------------------------------------
(* impl Grid<[u8; 3]> for image::RgbImage.  An image is                     *)
(*     [kind |-> "image", width, height, pixels |-> [<<x, y>> |-> value]]   *)
(* with a pixel for every x < width, y < height.  The integer widths are    *)
(* scaled down: a u32 has U32Bits bits, an i64 twice as many, so that       *)
(* `pos[0] as u32` can be followed over the whole range of a coordinate.    *)
(* SpecImage: one get_value, set_value or transpose call on a caller-       *)
(* created image; orig is the image as created, args the <<pos, value>> of  *)
(* the call, out what get_value returned.                                   *)

Image(width, height, pixels) ==
    [kind |-> "image", width |-> width, height |-> height, pixels |-> pixels]

\* `v as u32` for an i64 v: the low bits of v
as_u32(v) == v % (2 ^ U32Bits)

\* the coordinates an i64 holds
I64 == (0 - 2 ^ (U32Bits + U32Bits - 1))..(2 ^ (U32Bits + U32Bits - 1) - 1)

\* GenericImageView::bounds: (0, 0, width, height)
RgbImage_bounds(img) == <<0, 0, img.width, img.height>>

RgbImage_get_value(img, pos) ==
    LET x == as_u32(pos[1])
        y == as_u32(pos[2])
        b == RgbImage_bounds(img)
    IN  IF x >= b[1] /\ x < b[3] /\ y >= b[2] /\ y < b[4]
        THEN Some(img.pixels[<<x, y>>])
        ELSE None

RgbImage_set_value(img, pos, value) ==
    LET x == as_u32(pos[1])
        y == as_u32(pos[2])
        b == RgbImage_bounds(img)
    IN  IF x >= b[1] /\ x < b[3] /\ y >= b[2] /\ y < b[4]
        THEN [img EXCEPT !.pixels[<<x, y>>] = value]
        ELSE img

RgbImage_extents(img) ==
    LET b == RgbImage_bounds(img)
    IN  <<<<b[1], b[2]>>, <<b[3] - 1, b[4] - 1>>>>

\* image::imageops::rotate270: the pixel (x, y) goes to (y, width - 1 - x) of
\* an image of the height as width and the width as height
imageops_rotate270(img) ==
    Image(img.height, img.width,
          [p \in (0..(img.height - 1)) \X (0..(img.width - 1)) |->
              img.pixels[<<img.width - 1 - p[2], p[1]>>]])

\* image::imageops::flip_horizontal_in_place: the pixel (x, y) goes to
\* (width - 1 - x, y)
imageops_flip_horizontal_in_place(img) ==
    [img EXCEPT !.pixels = [p \in DOMAIN img.pixels |-> img.pixels[<<img.width - 1 - p[1], p[2]>>]]]

RgbImage_rotate_270_cw(img) == imageops_rotate270(img)
RgbImage_flip_horizontal(img) == imageops_flip_horizontal_in_place(img)
RgbImage_transpose(img) == RgbImage_flip_horizontal(RgbImage_rotate_270_cw(img))

\* the images a caller creates, a value of its own in every pixel, and the
\* value it sets
Images ==
    {Image(w, h, [p \in (0..(w - 1)) \X (0..(h - 1)) |-> Label(p)]) :
        w \in 0..MaxCols, h \in 0..MaxRows}

InitImage == \E img \in Images : Start(img)

ImageGetValue ==
    /\ hist = NoCall
    /\ \E x \in I64, y \in I64 :
        /\ out' = RgbImage_get_value(grid, <<x, y>>)
        /\ args' = <<(<<x, y>>)>>
    /\ hist' = [name |-> "get_value", n |-> 1]
    /\ UNCHANGED <<grid, orig, panicked, iter, items, src>>

ImageSetValue ==
    /\ hist = NoCall
    /\ \E x \in I64, y \in I64 :
        /\ grid' = RgbImage_set_value(grid, <<x, y>>, DefaultVal)
        /\ args' = <<(<<x, y>>), DefaultVal>>
    /\ hist' = [name |-> "set_value", n |-> 1]
    /\ UNCHANGED <<orig, panicked, iter, items, src, out>>

ImageTranspose ==
    /\ hist = NoCall
    /\ grid' = RgbImage_transpose(grid)
    /\ hist' = [name |-> "transpose", n |-> 1]
    /\ UNCHANGED <<orig, panicked, iter, items, src, args, out>>

NextImage == ImageGetValue \/ ImageSetValue \/ ImageTranspose

SpecImage == InitImage /\ [][NextImage]_vars

----------------------------------------------------------------------------
(* The bitmap drawing sinks: BitmapGridDrawer, BitmapSpriteGridDrawer and   *)
(* BitmapHexGridDrawer.  A string is the sequence of its characters, a path *)
(* the sequence of its std::path components (Unix): <<"/">> is the root,    *)
(* <<".">> the current and <<".", ".">> the parent directory, any other     *)
(* sequence a normal component.  Two paths are equal, as Path's ==, when    *)
(* their components are.                                                    *)
(* SpecDrawer: a drawer after new(), under set_rect, save_image, draw_grid  *)
(* and draw calls.  grid is the drawer, its image kept as <<width, height>> *)
(* (the pixels are not followed); items is the log of the calls, each with  *)
(* the file it wrote; the areas drawn are dense grids, given by their       *)
(* extents.                                                                 *)

DigitChars == <<"0", "1", "2", "3", "4", "5", "6", "7", "8", "9">>

\* format!("{}", n) of a usize
RECURSIVE format_display(_)
format_display(n) ==
    IF n < 10 THEN <<DigitChars[n + 1]>>
    ELSE format_display(n \div 10) \o <<DigitChars[(n % 10) + 1]>>

\* s filled with zeros on the left up to the width
RECURSIVE zero_padded(_, _)
zero_padded(s, width) ==
    IF Len(s) >= width THEN s ELSE zero_padded(<<"0">> \o s, width)

\* format!("{:06}", n) of a usize
format_06(n) == zero_padded(format_display(n), FrameDigits)

\* the pieces of s between its "/" characters; piece is the one being read
RECURSIVE split_separator(_, _)
split_separator(s, piece) ==
    IF s = <<>> THEN <<piece>>
    ELSE IF Head(s) = "/" THEN <<piece>> \o split_separator(Tail(s), <<>>)
    ELSE split_separator(Tail(s), Append(piece, Head(s)))

\* Path::components: the root if the path starts with "/", then the pieces
\* between separators without the empty ones and without the "." ones, but
\* for a "." that starts a path without root
Path_components(s) ==
    LET pieces == split_separator(s, <<>>)
        has_root == s /= <<>> /\ Head(s) = "/"
        kept == {i \in 1..Len(pieces) :
                    /\ pieces[i] /= <<>>
                    /\ pieces[i] = <<".">> => (i = 1 /\ ~has_root)}
        RECURSIVE in_order(_)
        in_order(i) ==
            IF i > Len(pieces) THEN <<>>
            ELSE (IF i \in kept THEN <<pieces[i]>> ELSE <<>>) \o in_order(i + 1)
    IN  (IF has_root THEN <<(<<"/">>)>> ELSE <<>>) \o in_order(1)

\* Path::parent: the path without its last component; None for a path with
\* no component and for one that ends in the root
Path_parent(s) ==
    LET comps == Path_components(s)
    IN  IF comps = <<>> THEN None
        ELSE IF comps[Len(comps)] = <<"/">> THEN None
        ELSE Some(SubSeq(comps, 1, Len(comps) - 1))

\* Path::file_name: the last component if it is a normal one
Path_file_name(s) ==
    LET comps == Path_components(s)
    IN  IF comps = <<>> THEN None
        ELSE IF comps[Len(comps)] \in {<<"/">>, <<".">>, <<".", ".">>} THEN None
        ELSE Some(comps[Len(comps)])

\* Path::join of the components of a path and a name without separator
Path_join(comps, name) == Append(comps, name)

PNG == <<".", "p", "n", "g">>

\* the let filename of save_image: <<path, ok>>; ok is FALSE when
\* path.file_name().unwrap() panics
save_image_filename(basename, frame) ==
    LET parent == Path_parent(basename)
        file_name == Path_file_name(basename)
    IN  IF parent /= None
        THEN IF file_name = None THEN [path |-> <<>>, ok |-> FALSE]
             ELSE [path |-> Path_join(parent[1], file_name[1] \o <<"_">> \o format_06(frame) \o PNG),
                   ok |-> TRUE]
        ELSE [path |-> Path_components(basename \o <<"_">> \o format_display(frame) \o PNG),
              ok |-> TRUE]

Sinks == {"BitmapGridDrawer", "BitmapSpriteGridDrawer", "BitmapHexGridDrawer"}

\* new(to_color, basename) and new(sprite_dimension, to_sprite, basename);
\* the folder of the basename can be created
Drawer_new(sink, basename) ==
    [kind |-> "drawer", sink |-> sink, basename |-> basename, frame |-> 0,
     sprite_dimension |-> IF sink = "BitmapSpriteGridDrawer" THEN SpriteDimension ELSE <<>>,
     rect |-> None, image |-> None]

Drawer_set_rect(d, r) == [d EXCEPT !.rect = Some(r)]

\* save_image: [file, ok]; the file written (None without an image)
Drawer_save_image(d) ==
    LET filename == save_image_filename(d.basename, d.frame)
    IN  IF ~filename.ok THEN [file |-> None, ok |-> FALSE]
        ELSE IF d.image /= None THEN [file |-> Some(filename.path), ok |-> TRUE]
        ELSE [file |-> None, ok |-> TRUE]

\* draw_grid of an area with the extents e
Drawer_draw_grid(d, e) ==
    LET clip == IF d.sink /= "BitmapHexGridDrawer" /\ d.rect /= None THEN d.rect[1] ELSE e
        width == clip[2][1] - clip[1][1] + 1
        height == clip[2][2] - clip[1][2] + 1
        size == IF d.sink = "BitmapGridDrawer" THEN <<width, height>>
                ELSE IF d.sink = "BitmapSpriteGridDrawer"
                     THEN <<width * d.sprite_dimension[1], height * d.sprite_dimension[2]>>
                ELSE <<(width + 1) * 6, (height + 1) * 5>>
    IN  [d EXCEPT !.frame = d.frame + 1, !.image = Some(size)]

\* the characters of a basename, the basenames of a caller, the extents of
\* the areas it draws and the rectangle it clips to
NameChars == {"a", "/", "."}
Basenames == UNION {[1..n -> NameChars] : n \in 0..MaxName}
Areas == {<<<<0, 0>>, <<w - 1, 0>>>> : w \in 1..2}
Rects == {<<<<0, 0>>, <<0, 0>>>>}

Logged(call, file) == [call |-> call, file |-> file]

InitDrawer == \E sink \in Sinks, basename \in Basenames : Start(Drawer_new(sink, basename))

DrawerCall(name) ==
    /\ ~panicked
    /\ Len(items) < MaxDraws
    /\ hist' = [name |-> name, n |-> Len(items) + 1]
    /\ UNCHANGED <<orig, iter, src, out>>

DrawerSetRect ==
    /\ DrawerCall("set_rect")
    /\ grid.sink /= "BitmapHexGridDrawer"
    /\ \E r \in Rects :
        /\ grid' = Drawer_set_rect(grid, r)
        /\ args' = <<r>>
    /\ items' = Append(items, Logged("set_rect", None))
    /\ UNCHANGED panicked

DrawerSaveImage ==
    /\ DrawerCall("save_image")
    /\ LET r == Drawer_save_image(grid)
       IN  /\ items' = Append(items, Logged("save_image", r.file))
           /\ panicked' = ~r.ok
    /\ UNCHANGED <<grid, args>>

DrawerDrawGrid ==
    /\ DrawerCall("draw_grid")
    /\ \E e \in Areas :
        /\ grid' = Drawer_draw_grid(grid, e)
        /\ args' = <<e>>
    /\ items' = Append(items, Logged("draw_grid", None))
    /\ UNCHANGED panicked

DrawerDraw ==
    /\ DrawerCall("draw")
    /\ \E e \in Areas :
        LET d == Drawer_draw_grid(grid, e)
            r == Drawer_save_image(d)
        IN  /\ grid' = d
            /\ args' = <<e>>
            /\ items' = Append(items, Logged("draw", r.file))
            /\ panicked' = ~r.ok

NextDrawer == DrawerSetRect \/ DrawerSaveImage \/ DrawerDrawGrid \/ DrawerDraw

SpecDrawer == InitDrawer /\ [][NextDrawer]_vars

----------------------------------------------------------------------------
(* astar: petgraph::algo::astar on the graph of grid_to_graph, with the     *)
(* weight of an edge as its cost and the Manhattan distance to the goal as  *)
(* the estimate.  SpecAstar: a caller builds the graph of its grid with     *)
(* every cell a node and weight 1 on every edge, and calls astar from one   *)
(* cell of the grid to another; each turn of the loop of petgraph's astar   *)
(* is a step.  iter holds the state of the search: visit_next is the heap   *)
(* (as the set of its <<estimate, node>> entries: an entry pushed twice is  *)
(* skipped the second time it is popped), scores and predecessor the maps   *)
(* of the best known cost and of the path tracker.  The heap orders its     *)
(* entries by the estimate alone, so the step pops any entry of the least   *)
(* estimate.  args is <<start, goal, directions>>, out the Option returned. *)

manhattan(goal, n) == Abs(goal[1] - n[1]) + Abs(goal[2] - n[2])

\* |n| (goal[0] - n[0]).abs() + (goal[1] - n[1]).abs()
estimate_cost(goal, n) == manhattan(goal, n)

\* graph.edges(node): the <<next, weight>> of the edges at node
graph_edges(graph, node) ==
    {<<next, graph.edges[{node, next}]>> : next \in {n \in graph.nodes : {node, n} \in DOMAIN graph.edges}}

\* PathTracker::reconstruct_path_to: from last back along the predecessors
RECURSIVE reconstruct_path_to(_, _)
reconstruct_path_to(predecessor, last) ==
    IF last \in DOMAIN predecessor
    THEN Append(reconstruct_path_to(predecessor, predecessor[last]), last)
    ELSE <<last>>

\* the state of the search when the loop is entered
astar_enter(graph, start, goal) ==
    [graph |-> graph, visited |-> {}, visit_next |-> {<<estimate_cost(goal, start), start>>},
     scores |-> [n \in {start} |-> 0], predecessor |-> <<>>, live |-> TRUE]

\* one turn of `while let Some(MinScored(_, node)) = visit_next.pop()` for
\* the entry popped: [st, result]; result is Some(returned) on return
astar_turn(st, goal, popped) ==
    LET node == popped[2]
        rest == st.visit_next \ {popped}
    IN  IF node = goal
        THEN [st |-> [st EXCEPT !.visit_next = rest, !.live = FALSE],
              result |-> Some(Some(<<st.scores[node], reconstruct_path_to(st.predecessor, node)>>))]
        ELSE IF node \in st.visited
        THEN [st |-> [st EXCEPT !.visit_next = rest], result |-> None]
        ELSE LET visited == st.visited \cup {node}
                 node_score == st.scores[node]
                 edges == {e \in graph_edges(st.graph, node) : e[1] \notin visited}
                 better == {e \in edges : e[1] \notin DOMAIN st.scores \/ node_score + e[2] < st.scores[e[1]]}
                 targets == {e[1] : e \in better}
                 weight(n) == (CHOOSE e \in better : e[1] = n)[2]
                 scores == [n \in (DOMAIN st.scores) \cup targets |->
                               IF n \in targets THEN node_score + weight(n) ELSE st.scores[n]]
                 predecessor == [n \in (DOMAIN st.predecessor) \cup targets |->
                                    IF n \in targets THEN node ELSE st.predecessor[n]]
                 pushed == {<<scores[e[1]] + estimate_cost(goal, e[1]), e[1]>> : e \in edges}
             IN  [st |-> [st EXCEPT !.visited = visited, !.visit_next = rest \cup pushed,
                                    !.scores = scores, !.predecessor = predecessor],
                  result |-> None]

\* the cells of a grid a caller starts from and goes to
AstarPoints == (0 - MaxCoord - 1..Max2(MaxCoord + 1, MaxCols - 1)) \X (0 - MaxCoord - 1..Max2(MaxCoord + 1, MaxRows - 1))
CellsOf(g) == {p \in AstarPoints : get_value(g, p) /= None}

InitAstar == \E g \in GraphGrids : Start(g)

AstarEnter ==
    /\ hist = NoCall
    /\ \E directions \in {4, 8}, start \in CellsOf(grid), goal \in CellsOf(grid) :
        LET r == grid_to_graph(grid, "every", "one", directions)
        IN  /\ iter' = astar_enter(r.graph[1], start, goal)
            /\ items' = r.calls
            /\ args' = <<start, goal, directions>>
    /\ hist' = [name |-> "astar", n |-> 1]
    /\ UNCHANGED <<grid, orig, panicked, src, out>>

AstarTurn ==
    /\ hist.name = "astar"
    /\ iter.live
    /\ IF iter.visit_next = {}
       THEN /\ iter' = [iter EXCEPT !.live = FALSE]
            /\ out' = None
       ELSE \E popped \in iter.visit_next :
            /\ \A other \in iter.visit_next : popped[1] <= other[1]
            /\ LET r == astar_turn(iter, args[2], popped)
               IN  /\ iter' = r.st
                   /\ out' = IF r.result = None THEN out ELSE r.result[1]
    /\ UNCHANGED <<grid, orig, hist, panicked, items, src, args>>

NextAstar == AstarEnter \/ AstarTurn

SpecAstar == InitAstar /\ [][NextAstar]_vars

----------------------------------------------------------------------------
(* Vocabulary of the properties *)

\* every position a grid of the model can populate: the keys and cells of the
\* caller-created grids and what set_value and blit add at the positions a
\* caller passes
Window == (0 - MaxCoord - 1)..(Max2(MaxCoord + 1, Max2(MaxRows, MaxCols)) + Max2(MaxRows, MaxCols))
Populated(g) == {p \in Window \X Window : get_value(g, p) /= None}
\* the position-to-value mapping, as a set of <<position, value>>
Mapping(g) == {<<p, get_value(g, p)[1]>> : p \in Populated(g)}

\* a dense grid whose rows all have the same non-zero length, or a sparse
\* grid with at least one key
Rectangular(g) ==
    IF g.kind = "dense"
    THEN /\ Len(g.rows) > 0
         /\ Len(g.rows[1]) > 0
         /\ \A i \in 1..Len(g.rows) : Len(g.rows[i]) = Len(g.rows[1])
    ELSE DOMAIN g.cells /= {}

\* a dense grid with rows of different lengths
Ragged(g) ==
    /\ g.kind = "dense"
    /\ \E i, j \in 1..Len(g.rows) : Len(g.rows[i]) /= Len(g.rows[j])

Width(g) == extents(g)[2][1] - extents(g)[1][1] + 1
Height(g) == extents(g)[2][2] - extents(g)[1][2] + 1

\* the calls made so far are n calls of the method name
Called(name, n) == hist = [name |-> name, n |-> n]

\* C1: four rotate_90_cw in a row leave a rectangular grid with at least one
\* cell with the same position-to-value mapping and the same extents.
C1_Rotate90FourTimes ==
    (Called("rotate_90_cw", 4) /\ Rectangular(orig)) =>
        /\ ~panicked
        /\ Mapping(grid) = Mapping(orig)
        /\ extents(grid) = extents(orig)
        /\ grid = orig

\* a sparse grid with a negative coordinate and a non-square bounding box
\* has been rotated four times
C1_Witness ==
    /\ Called("rotate_90_cw", 4)
    /\ ~panicked
    /\ orig.kind = "sparse"
    /\ Cardinality(DOMAIN orig.cells) >= 2
    /\ Width(orig) /= Height(orig)
    /\ extents(orig)[1][1] < 0
    /\ grid = orig

\* C2: flip_horizontal, flip_vertical and transpose are involutions on a
\* rectangular grid with at least one cell.
C2_Involutions ==
    \A name \in {"flip_horizontal", "flip_vertical", "transpose"} :
        (Called(name, 2) /\ Rectangular(orig)) =>
            /\ ~panicked
            /\ Mapping(grid) = Mapping(orig)
            /\ grid = orig

\* a dense grid of two rows has been flipped vertically twice
C2_Witness ==
    /\ Called("flip_vertical", 2)
    /\ ~panicked
    /\ orig.kind = "dense"
    /\ Rectangular(orig)
    /\ Len(orig.rows) = 2
    /\ grid = orig

\* where flip_vertical / flip_horizontal put position p, for the extents e
\* taken before the call
MirrorV(e, p) == <<p[1], e[1][2] + e[2][2] - p[2]>>
MirrorH(e, p) == <<e[1][1] + e[2][1] - p[1], p[2]>>

\* grid is orig with every populated position p moved to to[p], no value
\* lost or duplicated, and the extents kept
MovedBy(to) ==
    /\ ~panicked
    /\ \A p \in Populated(orig) : get_value(grid, to[p]) = get_value(orig, p)
    /\ Cardinality(Populated(grid)) = Cardinality(Populated(orig))
    /\ extents(grid) = extents(orig)

\* C3: on the dense and the sparse backend flip_vertical moves the value at
\* every populated (x, y) to (x, min.y + max.y - y) and flip_horizontal moves
\* it to (min.x + max.x - x, y), no value is lost or duplicated, and the
\* extents are kept.
C3_FlipMirrors ==
    /\ Called("flip_vertical", 1) =>
            MovedBy([p \in Populated(orig) |-> MirrorV(extents(orig), p)])
    /\ Called("flip_horizontal", 1) =>
            MovedBy([p \in Populated(orig) |-> MirrorH(extents(orig), p)])

\* The same statement for the grids of C1 and C2 (rectangular, at least one
\* cell): it holds there, on both backends.
FlipMirrorsRectangular == Rectangular(orig) => C3_FlipMirrors

RECURSIVE RotatedBy(_, _)
RotatedBy(g, k) == IF k = 0 THEN g ELSE rotate_90_cw(RotatedBy(g, k - 1)).g

\* item number i (from 0) of the orientations of g
Orientation(g, i) ==
    IF i % 2 = 0 THEN RotatedBy(g, i \div 2)
    ELSE flip_horizontal(RotatedBy(g, i \div 2)).g

\* C4: the orientation iterator yields exactly 8 grids and then end-of-sequence
\* on every later call; item 2k is the source rotated clockwise by k * 90
\* degrees and item 2k+1 that rotation followed by flip_horizontal; the grid
\* the iterator was created from keeps its contents.
C4_Transpositions ==
    iter.live =>
        /\ ~panicked
        /\ Len(items) = hist.n
        /\ \A i \in 1..Len(items) :
                items[i] = IF i <= 8 THEN Some(Orientation(orig, i - 1)) ELSE None
        /\ iter.grid = orig
        /\ grid = orig

\* The same statement for the grids of C1 and C2 (rectangular, at least one
\* cell): it holds there, on both backends.
TranspositionsRectangular == Rectangular(orig) => C4_Transpositions

InBox(p, e) ==
    /\ e[1][1] <= p[1] /\ p[1] <= e[2][1]
    /\ e[1][2] <= p[2] /\ p[2] <= e[2][2]

Neighbours4(p) ==
    {<<p[1] - 1, p[2]>>, <<p[1] + 1, p[2]>>, <<p[1], p[2] - 1>>, <<p[1], p[2] + 1>>}

\* the cells of g inside e that hold old
OldCells(g, old, e) == {p \in Populated(g) : InBox(p, e) /\ get_value(g, p) = Some(old)}

\* the cells reachable from the cells of S by steps to orthogonal neighbours
\* through the cells of Old
RECURSIVE Reach(_, _)
Reach(S, Old) ==
    LET T == S \cup {q \in Old : \E p \in S : q \in Neighbours4(p)}
    IN  IF T = S THEN S ELSE Reach(T, Old)

\* the set C of C6: the 4-connected component of start among the cells that
\* held old, all inside the extents e measured when fill began
Component(g, start, old, e) == Reach({start} \cap OldCells(g, old, e), OldCells(g, old, e))

\* the latest call was fill(pos, value)
FillCalled == hist.name = "fill"
FillPos == args[1]
FillValue == args[2]

\* C6: when old = get(start) is defined and differs from new, fill recolours
\* exactly the cells of C and every other cell keeps its value or stays absent.
C6_FillComponent ==
    (FillCalled /\ get_value(orig, FillPos) /= None
                /\ get_value(orig, FillPos) /= Some(FillValue)) =>
        LET C == Component(orig, FillPos, get_value(orig, FillPos)[1], extents(orig))
        IN  \A p \in Window \X Window :
                get_value(grid, p) = IF p \in C THEN Some(FillValue) ELSE get_value(orig, p)

\* The same statement for every start inside the extents measured when fill
\* began: it holds there, on both backends, ragged dense grids included.
FillComponentInsideExtents ==
    (FillCalled /\ InBox(FillPos, extents(orig))) => C6_FillComponent

\* C7: fill leaves the whole grid unchanged when get(start) is absent and when
\* get(start) already equals the new value.
C7_FillNoOp ==
    (FillCalled /\ (get_value(orig, FillPos) = None
                    \/ get_value(orig, FillPos) = Some(FillValue))) =>
        /\ grid = orig
        /\ Mapping(grid) = Mapping(orig)
        /\ extents(grid) = extents(orig)

\* fill was called on a hole inside the bounding box of a sparse grid, next
\* to a populated cell
C7_Witness ==
    /\ FillCalled
    /\ orig.kind = "sparse"
    /\ get_value(orig, FillPos) = None
    /\ InBox(FillPos, extents(orig))
    /\ \E q \in Neighbours4(FillPos) : get_value(orig, q) /= None
    /\ grid = orig

\* the latest call was plot_line(a, b)
LineCalled == hist.name = "plot_line"
LineA == args[1]
LineB == args[2]

\* C8: the sequence plot_line(a, b) returns starts with a, ends with b, and
\* every two consecutive elements are different points whose x and whose y
\* differ by at most 1.
C8_LineConnected ==
    LineCalled =>
        /\ Len(out) >= 1
        /\ out[1] = LineA
        /\ out[Len(out)] = LineB
        /\ \A i \in 1..(Len(out) - 1) :
                /\ out[i] /= out[i + 1]
                /\ Abs(out[i + 1][1] - out[i][1]) <= 1
                /\ Abs(out[i + 1][2] - out[i][2]) <= 1

\* a line going left and down, neither axis-parallel nor diagonal, of at
\* least four points, has been drawn
C8_Witness ==
    /\ LineCalled
    /\ LineB[1] < LineA[1]
    /\ LineB[2] > LineA[2]
    /\ Abs(LineB[1] - LineA[1]) /= Abs(LineB[2] - LineA[2])
    /\ Len(out) >= 4
    /\ out[1] = LineA
    /\ out[Len(out)] = LineB

PointSet(seq) == {seq[i] : i \in 1..Len(seq)}

\* C9: plot_line(a, b) and plot_line(b, a) contain the same set of points.
C9_LineSymmetric ==
    LineCalled => PointSet(plot_line(LineB, LineA)) = PointSet(out)

\* C9 as amended: plot_line(b, a) has as many points as plot_line(a, b) and
\* its i-th point is a + b minus the i-th point of plot_line(a, b) (the path
\* reflected through the midpoint of a and b); the two point sets are the
\* same when the line is horizontal, vertical or diagonal.
C9_LineReflected ==
    LineCalled =>
        LET back == plot_line(LineB, LineA)
        IN  /\ Len(back) = Len(out)
            /\ \A i \in 1..Len(out) :
                    back[i] = <<LineA[1] + LineB[1] - out[i][1], LineA[2] + LineB[2] - out[i][2]>>
            /\ (\/ LineA[1] = LineB[1]
                \/ LineA[2] = LineB[2]
                \/ Abs(LineB[1] - LineA[1]) = Abs(LineB[2] - LineA[2])) =>
                    PointSet(back) = PointSet(out)

\* a line two across and one down has been drawn: drawn the other way round
\* it passes through another middle point
C9_Witness ==
    /\ LineCalled
    /\ LineB[1] - LineA[1] = 2
    /\ LineB[2] - LineA[2] = 1
    /\ PointSet(plot_line(LineB, LineA)) /= PointSet(out)
    /\ Len(plot_line(LineB, LineA)) = Len(out)

\* the latest call was blit_rect(pos, src, start, end), or blit(pos, src)
\* with the extents of src for start and end
BlitCalled == hist.name \in {"blit_rect", "blit"}
BlitPos == args[1]
BlitStart == args[2]
BlitEnd == args[3]

\* every position a blit can read or write: the cells of the caller-created
\* grids and the targets pos + (p - cmin) of the cells p of a source
BlitWindow == (0 - MaxCoord)..(MaxCoord + Max2(MaxCoord + MaxCoord, Max2(MaxRows, MaxCols) - 1))
BlitCells == BlitWindow \X BlitWindow
\* no cell of g lies outside BlitCells
InBlitCells(g) ==
    IF g.kind = "dense"
    THEN \A y \in 1..Len(g.rows) : {y - 1, Len(g.rows[y]) - 1} \subseteq BlitWindow \cup {0 - 1}
    ELSE DOMAIN g.cells \subseteq BlitCells

\* cmin and cmax: the minimum and the maximum corner of the intersection of
\* the extents e of src with [start, end]
BlitCmin(e) == <<Max2(e[1][1], BlitStart[1]), Max2(e[1][2], BlitStart[2])>>
BlitCmax(e) == <<Min2(e[2][1], BlitEnd[1]), Min2(e[2][2], BlitEnd[2])>>
\* R: the positions from cmin to cmax, none when cmax is below cmin on an axis
BlitR(cmin, cmax) == (cmin[1]..cmax[1]) \X (cmin[2]..cmax[2])
\* dest_pos + (p - cmin)
BlitTarget(p, cmin) == <<BlitPos[1] + (p[1] - cmin[1]), BlitPos[2] + (p[2] - cmin[2])>>

\* set can store at q: any position of a sparse grid, the positions inside
\* the rows of a dense grid
Addressable(g, q) == g.kind = "sparse" \/ InVec(g.rows, q[1], q[2])

\* the shape of a dense grid (its row lengths); nothing for a sparse grid
Shape(g) == [y \in 1..Len(g.rows) |-> Len(g.rows[y])]

\* C10: after blit_rect the destination holds, for every p of R that src
\* defines, src's value at dest_pos + (p - cmin) when that position is
\* addressable; every other destination cell keeps its prior value or stays
\* absent; nothing is written when R is empty; blit is blit_rect over the
\* extents of src, so the minimum corner of src lands at dest_pos.
C10_BlitRect ==
    BlitCalled =>
        LET e == extents(src)
            cmin == BlitCmin(e)
            R == BlitR(cmin, BlitCmax(e))
            copied == {p \in R : get_value(src, p) /= None}
            written == {BlitTarget(p, cmin) : p \in copied}
        IN  /\ \A p \in copied :
                    get_value(grid, BlitTarget(p, cmin)) =
                        IF Addressable(orig, BlitTarget(p, cmin)) THEN get_value(src, p)
                        ELSE get_value(orig, BlitTarget(p, cmin))
            /\ Cardinality(written) = Cardinality(copied)
            /\ \A q \in BlitCells \ written : get_value(grid, q) = get_value(orig, q)
            /\ InBlitCells(grid) /\ InBlitCells(src)
            /\ grid.kind = orig.kind
            /\ Shape(grid) = Shape(orig)
            /\ R = {} => grid = orig
            /\ hist.name = "blit" =>
                    /\ R = {p \in BlitCells : InBox(p, e)}
                    /\ cmin = e[1]
                    /\ (get_value(src, e[1]) /= None /\ Addressable(orig, BlitPos)) =>
                            get_value(grid, BlitPos) = get_value(src, e[1])

\* a rectangle that cuts the extents of the source on the low side has been
\* copied: a cell that is not the minimum corner of the source landed on a
\* populated cell of the destination, and a hole of the source inside the
\* rectangle left its target untouched
C10_Witness ==
    LET e == extents(src)
        cmin == BlitCmin(e)
        R == BlitR(cmin, BlitCmax(e))
    IN  /\ hist.name = "blit_rect"
        /\ cmin /= e[1]
        /\ cmin /= <<0, 0>>
        /\ \E p \in R :
                /\ p /= cmin
                /\ get_value(src, p) /= None
                /\ get_value(orig, BlitTarget(p, cmin)) /= None
                /\ get_value(grid, BlitTarget(p, cmin)) = get_value(src, p)
        /\ \E p \in R :
                /\ get_value(src, p) = None
                /\ get_value(orig, BlitTarget(p, cmin)) /= None
                /\ get_value(grid, BlitTarget(p, cmin)) = get_value(orig, BlitTarget(p, cmin))

\* the latest call was blit_rect_convert(pos, src, start, end, convert)
ConvertCalled == hist.name = "blit_rect_convert"
ConvertFn == args[4]

\* C11: blit_rect_convert writes the positions blit_rect writes for the same
\* pos, source and rectangle, each with convert applied to the value blit_rect
\* copies there, and leaves every other cell as blit_rect leaves it; with the
\* identity as convert the two give the same destination grid.
C11_ConvertRefinesBlitRect ==
    ConvertCalled =>
        LET b == blit_rect(orig, BlitPos, src, BlitStart, BlitEnd)
        IN  /\ \A q \in BlitCells :
                    LET copied == get_value(b, q)
                    IN  get_value(grid, q) =
                            IF copied /= None /\ copied[1] \in SourceVals
                            THEN Some(ConvertFn[copied[1]])
                            ELSE get_value(orig, q)
            /\ InBlitCells(grid) /\ InBlitCells(b)
            /\ grid.kind = orig.kind
            /\ Shape(grid) = Shape(orig)
            /\ (\A v \in SourceVals : ConvertFn[v] = v) => grid = b

\* a rectangle cutting the source has been copied with the doubling: some
\* cell of the destination was overwritten with the doubled source value, and
\* a cell of the source outside the rectangle was not copied
C11_Witness ==
    /\ ConvertCalled
    /\ \E v \in SourceVals : ConvertFn[v] /= v
    /\ \E q \in BlitCells :
            /\ get_value(orig, q) /= None
            /\ get_value(grid, q) /= get_value(orig, q)
            /\ get_value(grid, q)[1] \in {v + v : v \in SourceVals}
    /\ \E p \in BlitCells :
            /\ get_value(src, p) /= None
            /\ ~InBox(p, <<BlitStart, BlitEnd>>)
    /\ grid /= orig

\* the position is inside the shape of the dense grid g
InShape(g, p) ==
    /\ 0 <= p[2] /\ p[2] < Len(g.rows)
    /\ 0 <= p[1] /\ p[1] < Len(g.rows[p[2] + 1])

\* C12: get outside the dense shape (negative coordinates included) or at an
\* unpopulated sparse position returns absent and does not fail; set outside
\* the dense shape leaves the dense grid unchanged; set on a sparse grid
\* creates or overwrites its key and changes no other key; after a set(p, v)
\* at an addressable position get(p) returns v.
C12_GetSetContract ==
    /\ ~panicked
    /\ hist.name = "get_value" =>
            /\ (grid.kind = "dense" /\ ~InShape(grid, out[1])) => out[2] = None
            /\ (grid.kind = "sparse" /\ out[1] \notin DOMAIN grid.cells) => out[2] = None
            /\ (hist.n = 2 /\ out[1] = args[1] /\ Addressable(orig, args[1])) =>
                    out[2] = Some(args[2])
    /\ hist.name \in {"set_value", "get_value"} /\ hist.n >= 1 /\ args /= <<>> =>
            /\ (orig.kind = "dense" /\ ~InShape(orig, args[1])) => grid = orig
            /\ orig.kind = "dense" => Shape(grid) = Shape(orig)
            /\ orig.kind = "sparse" =>
                    /\ DOMAIN grid.cells = DOMAIN orig.cells \cup {args[1]}
                    /\ grid.cells[args[1]] = args[2]
                    /\ \A k \in DOMAIN orig.cells \ {args[1]} : grid.cells[k] = orig.cells[k]
            /\ \A q \in (Window \X Window) \ {args[1]} : get_value(grid, q) = get_value(orig, q)

\* a set beyond the end of an existing row of a dense grid was dropped, and
\* the get of the same position returned absent
C12_Witness ==
    /\ hist = [name |-> "get_value", n |-> 2]
    /\ orig.kind = "dense"
    /\ args[1][2] >= 0 /\ args[1][2] < Len(orig.rows)
    /\ args[1][1] >= Len(orig.rows[args[1][2] + 1])
    /\ out[1] = args[1]
    /\ out[2] = None
    /\ grid = orig

\* a set created a key of a sparse grid at a negative position and the get
\* of it returned the value
C12_WitnessSparse ==
    /\ hist = [name |-> "get_value", n |-> 2]
    /\ orig.kind = "sparse"
    /\ args[1] \notin DOMAIN orig.cells
    /\ args[1][1] < 0
    /\ out = <<args[1], Some(args[2])>>

\* C13: in every state reached by set, flip, transpose, rotate, fill, line
\* and blit calls from a caller-created grid, every position p with get(p)
\* defined lies inside extents(): min.x <= p.x <= max.x, min.y <= p.y <= max.y.
C13_ExtentsContainCells ==
    \A p \in Populated(grid) : InBox(p, extents(grid))

\* The same statement from the caller-created grids whose rows all have the
\* same length (and from every map): it holds there, through every call.
ExtentsContainCellsEqualRows == ~Ragged(orig) => C13_ExtentsContainCells

\* a grid with no cells in the sense of C14: an empty map, a dense grid with
\* no rows, a dense grid whose first row is empty
NoCells(g) ==
    IF g.kind = "sparse" THEN DOMAIN g.cells = {}
    ELSE Len(g.rows) = 0 \/ Len(g.rows[1]) = 0

\* C14: extents() of a grid with no cells returns ([0,0],[0,0]) and does not
\* fail; of a non-empty sparse grid it returns the tight bounding box of the
\* keys: every key is inside and each of min.x, min.y, max.x, max.y is the
\* coordinate of some key.
C14_Extents ==
    hist.name = "extents" =>
        /\ ~panicked
        /\ NoCells(grid) => out = <<<<0, 0>>, <<0, 0>>>>
        /\ (grid.kind = "sparse" /\ DOMAIN grid.cells /= {}) =>
                /\ \A k \in DOMAIN grid.cells : InBox(k, out)
                /\ \E k \in DOMAIN grid.cells : k[1] = out[1][1]
                /\ \E k \in DOMAIN grid.cells : k[2] = out[1][2]
                /\ \E k \in DOMAIN grid.cells : k[1] = out[2][1]
                /\ \E k \in DOMAIN grid.cells : k[2] = out[2][2]

\* extents() was called on a map, after a set_value, whose keys are all left
\* of and above the origin
C14_Witness ==
    /\ hist = [name |-> "extents", n |-> 2]
    /\ grid.kind = "sparse"
    /\ Cardinality(DOMAIN grid.cells) >= 2
    /\ out[2][1] < 0
    /\ out[2][2] < 0
    /\ out[1][1] < out[2][1]

\* extents() was called on a dense grid whose first row is empty and whose
\* second row is not
C14_WitnessDense ==
    /\ hist.name = "extents"
    /\ grid.kind = "dense"
    /\ Len(grid.rows) = 2
    /\ Len(grid.rows[1]) = 0
    /\ Len(grid.rows[2]) > 0
    /\ out = <<<<0, 0>>, <<0, 0>>>>

\* C15: the points() iterator yields every coordinate of the bounding box
\* (extents taken when points() is called) once, in row-major order, that is
\* (max.x-min.x+1)*(max.y-min.y+1) points, holes of a sparse grid included,
\* then end-of-sequence on every later call; on an empty grid it yields the
\* one point (0,0).
C15_PointsRowMajor ==
    hist.name = "points" =>
        LET e == extents(orig)
            w == e[2][1] - e[1][1] + 1
            h == e[2][2] - e[1][2] + 1
        IN  /\ Len(items) = hist.n
            /\ \A i \in 1..Len(items) :
                    items[i] = IF i <= w * h
                               THEN Some(<<e[1][1] + ((i - 1) % w), e[1][2] + ((i - 1) \div w)>>)
                               ELSE None
            /\ NoCells(orig) => w * h = 1 /\ e[1] = <<0, 0>>
            /\ iter.extents = e

\* the iterator of a map with a hole, whose box does not start at the
\* origin, has run to its end and two calls beyond, while a set_value widened
\* the extents of the map
C15_Witness ==
    /\ hist.name = "points"
    /\ orig.kind = "sparse"
    /\ extents(orig)[1][1] < 0
    /\ Width(orig) >= 2 /\ Height(orig) >= 2
    /\ \E i \in 1..Len(items) : items[i] /= None /\ get_value(orig, items[i][1]) = None
    /\ Len(items) = Width(orig) * Height(orig) + 2
    /\ items[Len(items)] = None
    /\ extents(grid) /= extents(orig)

\* C16: cube_to_oddr(oddr_to_cube(p)) = p for every point p and
\* oddr_to_cube(cube_to_oddr(c)) = c for every cube triple c with
\* x + y + z = 0, negative and odd rows included; likewise
\* cube_to_axial(axial_to_cube(a)) = a and axial_to_cube(cube_to_axial(c)) = c.
C16_HexRoundTrips ==
    hist.n = 2 /\ hist.name \in {"oddr_to_cube", "cube_to_oddr", "axial_to_cube", "cube_to_axial"}
        => out = args[1]

\* a point on a negative odd row has gone to cube coordinates and back
C16_Witness ==
    /\ hist = [name |-> "cube_to_oddr", n |-> 2]
    /\ Len(args[1]) = 2
    /\ args[1][2] < 0
    /\ args[1][2] % 2 = 1
    /\ args[1][1] > 0
    /\ out = args[1]

\* the (cube coordinate, value) pairs of a hex grid
HexMapping(g) == {<<k, g.cells[k]>> : k \in DOMAIN g.cells}

\* C17: six rotate_60_cw in a row, the pivot recomputed from the current oddr
\* extents before each, return a hex grid with valid cube keys to its
\* original set of (cube coordinate, value) pairs.
C17_Rotate60SixTimes ==
    Called("rotate_60_cw", 6) => HexMapping(grid) = HexMapping(orig)

\* The six rotations leave the grid moved as a whole: the same values, at
\* the original keys shifted by one common offset.
Rotate60SixTimesShifted ==
    Called("rotate_60_cw", 6) =>
        \/ DOMAIN orig.cells = {} /\ DOMAIN grid.cells = {}
        \/ \E k \in DOMAIN orig.cells, k2 \in DOMAIN grid.cells :
                HexMapping(grid) = {<<vec_add(m[1], vec_sub(k2, k)), m[2]>> : m \in HexMapping(orig)}

CubeSum(c) == c[1] + c[2] + c[3]

\* C18: axial_to_cube and oddr_to_cube return triples summing to 0 for every
\* input; after any sequence of flip_horizontal, flip_vertical, flip_x,
\* flip_y, flip_z and rotate_60/120/180/240/300_cw on a hex grid whose keys
\* sum to 0, every key sums to 0 and the number of populated cells is the same.
C18_CubeInvariant ==
    /\ hist.name \in {"axial_to_cube", "oddr_to_cube"} => CubeSum(out) = 0
    /\ \A k \in DOMAIN grid.cells : CubeSum(k) = 0
    /\ Cardinality(DOMAIN grid.cells) = Cardinality(DOMAIN orig.cells)
    /\ {m[2] : m \in HexMapping(grid)} = {m[2] : m \in HexMapping(orig)}

\* two transforms, the latest a rotate_60_cw, have been called on a grid of
\* two cells on different rows: its cells have moved, to keys that sum to 0
C18_Witness ==
    /\ hist = [name |-> "rotate_60_cw", n |-> 2]
    /\ Cardinality(DOMAIN orig.cells) = 2
    /\ \E a \in DOMAIN orig.cells, b \in DOMAIN orig.cells : a[3] /= b[3]
    /\ DOMAIN grid.cells \cap DOMAIN orig.cells = {}
    /\ \A k \in DOMAIN grid.cells : CubeSum(k) = 0

\* oddr_to_cube was given a point on a negative odd row and returned a
\* triple summing to 0
C18_WitnessConversion ==
    /\ hist = [name |-> "oddr_to_cube", n |-> 1]
    /\ args[1][2] < 0 /\ args[1][2] % 2 = 1
    /\ CubeSum(out) = 0

\* the latest call was grid_to_graph(grid, is_node, get_edge, directions)
GraphCalled == hist.name = "grid_to_graph"
GraphIsNode == args[1]
GraphGetEdge == args[2]
GraphDirections == args[3]

\* the 4 orthogonal, or the 8 orthogonal and diagonal, steps to a neighbour
Steps(n) ==
    {d \in (0 - 1..1) \X (0 - 1..1) :
        /\ d /= <<0, 0>>
        /\ n = 4 => Abs(d[1]) + Abs(d[2]) = 1}

\* C19: for connectivity 4 or 8 the nodes of the graph are exactly the
\* positions inside the extents with a value for which is_node holds; two
\* nodes are joined exactly when one is a 4- (8-) neighbour of the other and
\* get_edge returns a weight for one of the two directions; no edge is a
\* self-loop or touches a non-node; an edge for which get_edge returns the
\* same weight in both directions carries that weight.
C19_GraphOfGrid ==
    (GraphCalled /\ GraphDirections \in {4, 8}) =>
        LET e == extents(grid)
            Nodes == {p \in Populated(grid) :
                        InBox(p, e) /\ is_node(GraphIsNode, p, get_value(grid, p)[1])}
            Weight(p, q) == get_edge(GraphGetEdge, p, get_value(grid, p)[1],
                                     q, get_value(grid, q)[1])
            Edges == {{p, q} : p \in Nodes, q \in Nodes} \cap
                     {{p, q} : <<p, q>> \in {pq \in Nodes \X Nodes :
                            /\ <<pq[2][1] - pq[1][1], pq[2][2] - pq[1][2]>> \in Steps(GraphDirections)
                            /\ Weight(pq[1], pq[2]) /= None \/ Weight(pq[2], pq[1]) /= None}}
        IN  /\ ~panicked
            /\ out /= None
            /\ out[1].nodes = Nodes
            /\ DOMAIN out[1].edges = Edges
            /\ \A ed \in DOMAIN out[1].edges : Cardinality(ed) = 2 /\ ed \subseteq Nodes
            /\ \A p \in Nodes, q \in Nodes :
                    ({p, q} \in Edges /\ Weight(p, q) = Weight(q, p)) =>
                        out[1].edges[{p, q}] = Weight(p, q)[1]

\* a graph with a diagonal edge was built from a map whose bounding box
\* holds positions without a value
C19_Witness ==
    /\ GraphCalled
    /\ GraphDirections = 8
    /\ orig.kind = "sparse"
    /\ out /= None
    /\ \E ed \in DOMAIN out[1].edges : \E p \in ed, q \in ed : p[1] /= q[1] /\ p[2] /= q[2]
    /\ \E p \in Window \X Window : InBox(p, extents(grid)) /\ get_value(grid, p) = None

\* a graph with an edge whose weight get_edge gives in one direction only
\* was built from a dense grid with rows of different lengths, one of whose
\* cells is_node refuses
C19_WitnessDense ==
    /\ GraphCalled
    /\ GraphDirections = 4
    /\ GraphGetEdge = "uphill"
    /\ Ragged(grid)
    /\ out /= None
    /\ DOMAIN out[1].edges /= {}
    /\ Populated(grid) \ out[1].nodes /= {}

\* C20: with a connectivity other than 4 or 8 grid_to_graph ends in a fatal
\* error before it reads a cell, calls is_node or get_edge, or builds any
\* part of a graph: no direction set is assumed and no graph is returned.
C20_BadConnectivity ==
    (GraphCalled /\ GraphDirections \notin {4, 8}) =>
        /\ panicked
        /\ items = <<>>
        /\ out = None

\* grid_to_graph was called with connectivity 6 on a grid with cells
C20_Witness ==
    /\ GraphCalled
    /\ GraphDirections = 6
    /\ Populated(grid) /= {}
    /\ GraphIsNode = "every"
    /\ GraphGetEdge = "one"
    /\ panicked

\* the displacement of the direction a key of DIRECTION_MAP names
Named ==
    [k \in {"U", "D", "R", "L", "N", "S", "E", "W", "NW", "SW", "NE", "SE"} |->
        CASE k \in {"U", "N"} -> <<0, 0 - 1>>
          [] k \in {"D", "S"} -> <<0, 1>>
          [] k \in {"R", "E"} -> <<1, 0>>
          [] k \in {"L", "W"} -> <<0 - 1, 0>>
          [] k = "NE" -> <<1, 0 - 1>>
          [] k = "NW" -> <<0 - 1, 0 - 1>>
          [] k = "SE" -> <<1, 1>>
          [] k = "SW" -> <<0 - 1, 1>>]

\* the compass names among the keys
Compass == {"N", "S", "E", "W", "NW", "SW", "NE", "SE"}

\* C30: a lookup of a key of DIRECTION_MAP gives the displacement of the
\* direction the key names (U, N: (0,-1); D, S: (0,1); R, E: (1,0); L, W:
\* (-1,0); NE: (1,-1); NW: (-1,-1); SE: (1,1); SW: (-1,1)), and distinct
\* compass names give distinct displacements.
C30_DirectionMap ==
    (hist.name = "get" /\ args \in DOMAIN Named) =>
        /\ out = Some(Named[args])
        /\ \A k \in Compass : (args \in Compass /\ k /= args) => DIRECTION_MAP_get(k) /= out

\* the loop of plot_line(a, b) has been entered; it has been left
LoopEntered == hist.name = "plot_line_loop"
LoopLeft == LoopEntered /\ ~iter.live

\* the points the loop has pushed so far are at most max(|b.x - a.x|,
\* |b.y - a.y|) + 1, exactly as many once it is left, pairwise distinct,
\* inside the bounding box of a and b, each one unit further along the major
\* axis than the one before
LinePointsSoFar ==
    LoopEntered =>
        LET a == args[1]
            b == args[2]
            dx == Abs(b[1] - a[1])
            dy == Abs(b[2] - a[2])
            n == Max2(dx, dy) + 1
        IN  /\ Len(out) <= n
            /\ LoopLeft => Len(out) = n /\ out = plot_line(a, b)
            /\ \A i \in 1..Len(out), j \in 1..Len(out) : i /= j => out[i] /= out[j]
            /\ \A i \in 1..Len(out) :
                    /\ Min2(a[1], b[1]) <= out[i][1] /\ out[i][1] <= Max2(a[1], b[1])
                    /\ Min2(a[2], b[2]) <= out[i][2] /\ out[i][2] <= Max2(a[2], b[2])
            /\ \A i \in 1..(Len(out) - 1) :
                    /\ dx >= dy => Abs(out[i + 1][1] - out[i][1]) = 1
                    /\ dy >= dx => Abs(out[i + 1][2] - out[i][2]) = 1

\* C29: for all points a and b the loop of plot_line is left after it has
\* pushed exactly max(|b.x - a.x|, |b.y - a.y|) + 1 pairwise distinct points
\* (one when a = b), all inside the bounding box of a and b, each one unit
\* further along the major axis.
C29_LineTerminates == [](LinePointsSoFar) /\ (LoopEntered ~> LoopLeft)

\* the loop was left after a line neither axis-parallel nor diagonal, going
\* left and up, with y the major axis
C29_Witness ==
    /\ LoopLeft
    /\ args[2][1] < args[1][1]
    /\ args[2][2] < args[1][2]
    /\ Abs(args[2][2] - args[1][2]) > Abs(args[2][1] - args[1][1])
    /\ Len(out) = Abs(args[2][2] - args[1][2]) + 1

\* the loop was left at once for a = b, with the one point pushed
C29_WitnessPoint ==
    /\ LoopLeft
    /\ args[1] = args[2]
    /\ out = <<args[1]>>

\* g is a dense grid with no cells: it has no rows, or rows of length zero
DenseNoCells(g) ==
    /\ g.kind = "dense"
    /\ \A i \in 1..Len(g.rows) : Len(g.rows[i]) = 0

\* C28: flip_horizontal, flip_vertical, transpose and the rotations, called
\* on a dense grid with no cells, end without a fatal error and leave a grid
\* with no populated cell.
C28_EmptyDenseTransforms ==
    (DenseNoCells(orig) /\ hist.name /= "") =>
        /\ ~panicked
        /\ Populated(grid) = {}

\* the hex transforms that turn or mirror the grid about a pivot
PivotNames ==
    {"flip_x", "flip_y", "flip_z", "rotate_60_cw", "rotate_120_cw",
     "rotate_180_cw", "rotate_240_cw", "rotate_300_cw"}

\* what the transform makes of the offset p from the pivot
PivotPattern(name, p) ==
    CASE name = "flip_x" -> <<p[1], p[3], p[2]>>
      [] name = "flip_y" -> <<p[3], p[2], p[1]>>
      [] name = "flip_z" -> <<p[2], p[1], p[3]>>
      [] name = "rotate_60_cw" -> <<0 - p[3], 0 - p[1], 0 - p[2]>>
      [] name = "rotate_120_cw" -> <<p[2], p[3], p[1]>>
      [] name = "rotate_180_cw" -> <<0 - p[1], 0 - p[2], 0 - p[3]>>
      [] name = "rotate_240_cw" -> <<p[3], p[1], p[2]>>
      [] name = "rotate_300_cw" -> <<0 - p[2], 0 - p[3], 0 - p[1]>>

\* the cells of g turned or mirrored about the cube coordinate pivot
AboutPivot(name, g, pivot) ==
    LET to == [k \in DOMAIN g.cells |->
                  <<PivotPattern(name, <<k[1] - pivot[1], k[2] - pivot[2], k[3] - pivot[3]>>)[1] + pivot[1],
                    PivotPattern(name, <<k[1] - pivot[1], k[2] - pivot[2], k[3] - pivot[3]>>)[2] + pivot[2],
                    PivotPattern(name, <<k[1] - pivot[1], k[2] - pivot[2], k[3] - pivot[3]>>)[3] + pivot[3]>>]
    IN  [c \in {to[k] : k \in DOMAIN g.cells} |->
            g.cells[CHOOSE k \in DOMAIN g.cells : to[k] = c]]

\* the integers halfway between lo and hi, rounded either way
Halfway(lo, hi) == {m \in lo..hi : lo + hi - 1 <= 2 * m /\ 2 * m <= lo + hi + 1}

\* the first transform called on the grid as created was one about a pivot,
\* and what it left is the grid turned or mirrored about the cube coordinate
\* of a midpoint of the oddr bounding box
PivotWasMidpoint ==
    LET e == HexGrid_oddr_extents(orig.cells)
    IN  \E mx \in Halfway(e[1][1], e[2][1]), my \in Halfway(e[1][2], e[2][2]) :
            grid.cells = AboutPivot(hist.name, orig, oddr_to_cube(<<mx, my>>))

\* C26: the pivot of the hex rotations and of flip_x, flip_y, flip_z is the
\* cube coordinate of the midpoint of the oddr bounding box of the grid,
\* wherever the bounding box lies.
C26_PivotIsMidpoint ==
    (hist.name \in PivotNames /\ hist.n = 1) => PivotWasMidpoint

\* the same for the grids whose oddr bounding box has its minimum corner at
\* the origin
PivotIsMidpointAtOrigin ==
    (/\ hist.name \in PivotNames
     /\ hist.n = 1
     /\ HexGrid_oddr_extents(orig.cells)[1] = <<0, 0>>) => PivotWasMidpoint

CrtCalled == hist.name = "chinese_remainder"
CrtResidues == args[1]
CrtModuli == args[2]
CrtT == args[3]

\* a and b have a common divisor above 1
ShareFactor(a, b) == \E d \in 2..a : a % d = 0 /\ b % d = 0

\* the product of the numbers of the list m, and of those but the i-th
RECURSIVE ProductOf(_)
ProductOf(m) == IF m = <<>> THEN 1 ELSE Head(m) * ProductOf(Tail(m))
ProductOfOthers(m, i) ==
    ProductOf([j \in 1..(Len(m) - 1) |-> IF j < i THEN m[j] ELSE m[j + 1]])

\* for moduli all above 1: Some(x) with 0 <= x < the product of the moduli
\* and x mod m_i = r_i for every i when the moduli are pairwise coprime, None
\* when a modulus shares a factor with the product of the others
CrtContract ==
    (\A i \in 1..Len(CrtModuli) : CrtModuli[i] > 1) =>
        LET m == CrtModuli
            r == CrtResidues
            coprime == \A i \in 1..Len(m), j \in 1..Len(m) : i /= j => ~ShareFactor(m[i], m[j])
            shared == \E i \in 1..Len(m) : ShareFactor(m[i], ProductOfOthers(m, i))
        IN  /\ coprime =>
                /\ ~panicked
                /\ out /= None
                /\ 0 <= out[1] /\ out[1] < ProductOf(m)
                /\ \A i \in 1..Len(m) : out[1] % m[i] = r[i]
            /\ shared => ~panicked /\ out = None

\* C23: for moduli all above 1 and residues 0 <= r_i < m_i, as many as the
\* moduli: when the moduli are pairwise coprime chinese_remainder returns
\* Some(x) with 0 <= x < the product of the moduli and x mod m_i = r_i for
\* every i (residues [2,3,2], moduli [3,5,7]: 23); when a modulus shares a
\* factor with the product of the others it returns None.
C23_ChineseRemainder == CrtCalled => CrtContract

\* the same where T is i16, which holds every number the call computes from
\* the lists of the model
ChineseRemainderWide == (CrtCalled /\ CrtT.bits = 16) => CrtContract

\* the colours that head a rule, and those named as a content
RuleColours == {items[i][1] : i \in 1..Len(items)}
ContentColours == UNION {{items[i][2][j][2] : j \in 1..Len(items[i][2])} : i \in 1..Len(items)}

\* the colours directly inside a bag of colour b
Inside(b) == UNION {{items[i][2][j][2] : j \in 1..Len(items[i][2])} :
                        i \in {k \in 1..Len(items) : items[k][1] = b}}

\* the colours at depth n or less inside the bags of the colours S
RECURSIVE InsideUpTo(_, _)
InsideUpTo(S, n) ==
    IF n = 0 THEN {}
    ELSE LET below == UNION {Inside(b) : b \in S}
         IN  below \cup InsideUpTo(below, n - 1)

\* no colour is inside itself at any depth, each colour heads one rule at
\* most, and shiny gold and every colour named as a content head a rule
WellFormedRules ==
    /\ \A b \in RuleColours : b \notin InsideUpTo({b}, Len(items))
    /\ \A i \in 1..Len(items), j \in 1..Len(items) : items[i][1] = items[j][1] => i = j
    /\ "shiny gold" \in RuleColours
    /\ ContentColours \subseteq RuleColours

\* N(b): the sum over the contents (c, n) of b of c * (1 + N(n))
RECURSIVE NestedBags(_)
RECURSIVE NestedBagsOf(_)
NestedBags(b) ==
    LET i == CHOOSE k \in 1..Len(items) : items[k][1] = b
    IN  NestedBagsOf(items[i][2])
NestedBagsOf(contents) ==
    IF contents = <<>> THEN 0
    ELSE Head(contents)[1] * (1 + NestedBags(Head(contents)[2])) + NestedBagsOf(Tail(contents))

\* C24: on rules without a cycle in which shiny gold and every colour named
\* as a content have their own rule, part2 returns N("shiny gold"), the
\* number of bags nested at any depth inside one shiny gold bag, where
\* N(b) = the sum over b's contents (c, n) of c * (1 + N(n)); sum_bags(b) is
\* 1 + N(b), and 0 for a colour with no rule.
C24_NestedBags ==
    WellFormedRules =>
        /\ hist.name = "part2" => ~panicked /\ out = NestedBags("shiny gold")
        /\ (hist.name = "sum_bags" /\ args \in RuleColours) =>
                ~panicked /\ out = 1 + NestedBags(args)
        /\ (hist.name = "sum_bags" /\ args \notin RuleColours) => ~panicked /\ out = 0

\* part2 returned 2 + 2 * 2 = 6 for shiny gold holding 2 dark red, each
\* holding 2 faded blue, the rules in another order than the nesting
C24_Witness ==
    /\ hist.name = "part2"
    /\ WellFormedRules
    /\ items = << <<"faded blue", <<>> >>,
                  <<"shiny gold", << <<2, "dark red">> >> >>,
                  <<"dark red", << <<2, "faded blue">> >> >> >>
    /\ out = 6

\* sum_bags returned 1 + N for a bag holding bags of two colours, one of
\* them holding bags itself
C24_WitnessSum ==
    /\ hist.name = "sum_bags"
    /\ WellFormedRules
    /\ args \in RuleColours
    /\ \E i \in 1..Len(items) : items[i][1] = args /\ Len(items[i][2]) = 2
    /\ out > 1 + 2 * MaxCount

\* the position of the latest get_value or set_value on an image lies in
\* [0, width) x [0, height) of the image as created
ImagePos == args[1]
InsideImage ==
    /\ 0 <= ImagePos[1] /\ ImagePos[1] < orig.width
    /\ 0 <= ImagePos[2] /\ ImagePos[2] < orig.height

\* C27: on a pixel buffer of width w and height h, for every position over
\* the whole range of the signed 64-bit coordinates that is not inside
\* [0, w) x [0, h), get returns None and set leaves every pixel unchanged:
\* the narrowing to unsigned 32 bits makes no position outside the image
\* alias a pixel inside it.
C27_ImageOutOfRange ==
    (hist.name \in {"get_value", "set_value"} /\ ~InsideImage) =>
        /\ hist.name = "get_value" => out = None
        /\ hist.name = "set_value" => grid = orig

\* the same for the positions whose coordinates fit a signed or an unsigned
\* 32-bit number
ImageOutOfRangeNear ==
    (/\ hist.name \in {"get_value", "set_value"}
     /\ ~InsideImage
     /\ \A i \in 1..2 : 0 - 2 ^ (U32Bits - 1) <= ImagePos[i] /\ ImagePos[i] < 2 ^ U32Bits) =>
        /\ hist.name = "get_value" => out = None
        /\ hist.name = "set_value" => grid = orig

\* the position-to-value mapping of an image, as a set of <<position, value>>
ImageMapping(img) == {<<p, img.pixels[p]>> : p \in DOMAIN img.pixels}

\* the dense grid and the map with the cells of the image
DenseOf(img) == Dense([y \in 1..img.height |-> [x \in 1..img.width |-> img.pixels[<<x - 1, y - 1>>]]])
SparseOf(img) == Sparse(img.pixels)

\* C25: on every backend transpose swaps the x and y axes: the value that
\* was at (x, y) is afterwards at (y, x), the extents are the old ones with
\* x and y exchanged, and a dense grid, a map and a pixel buffer that held
\* the same cells before transpose hold the same cells after it.
C25_TransposeSwapsAxes ==
    hist.name = "transpose" =>
        LET eo == RgbImage_extents(orig)
            en == RgbImage_extents(grid)
            d == transpose(DenseOf(orig))
            s == transpose(SparseOf(orig))
        IN  /\ ImageMapping(grid) = {<<<<c[1][2], c[1][1]>>, c[2]>> : c \in ImageMapping(orig)}
            /\ en = <<<<eo[1][2], eo[1][1]>>, <<eo[2][2], eo[2][1]>>>>
            /\ d.ok /\ Mapping(d.g) = ImageMapping(grid)
            /\ s.ok /\ Mapping(s.g) = ImageMapping(grid)

\* what transpose does on a pixel buffer: the extents are exchanged and the
\* value that was at (x, y) is afterwards at (height - 1 - y, width - 1 - x)
ImageTransposeMirrored ==
    hist.name = "transpose" =>
        /\ grid.width = orig.height /\ grid.height = orig.width
        /\ ImageMapping(grid) =
              {<<<<orig.height - 1 - c[1][2], orig.width - 1 - c[1][1]>>, c[2]>> : c \in ImageMapping(orig)}

\* the places in the log of the calls of one of the names
LoggedCalls(names) == {i \in 1..Len(items) : items[i].call \in names}

\* C22: for each bitmap drawing sink and every basename the frame counter is
\* 0 at creation and grows by one per draw and draw_grid call (save_image
\* leaves it alone), the n-th draw call (n >= 1) writes the file
\* <basename>_<n as 6 decimal digits, zero-padded>.png, and no two draw calls
\* write the same file.
C22_FrameFiles ==
    grid.kind = "drawer" =>
        /\ grid.frame = Cardinality(LoggedCalls({"draw", "draw_grid"}))
        /\ \A i \in LoggedCalls({"draw"}) :
            LET n == Cardinality({j \in LoggedCalls({"draw"}) : j <= i})
            IN  items[i].file = Some(Path_components(grid.basename \o <<"_">> \o format_06(n) \o PNG))
        /\ \A i, j \in LoggedCalls({"draw"}) : i /= j => items[i].file /= items[j].file

\* the basename ends in a name: neither empty nor ending in "/", "." or ".."
\* as its last piece
EndsInName(basename) ==
    LET pieces == split_separator(basename, <<>>)
    IN  pieces[Len(pieces)] \notin {<<>>, <<".">>, <<".", ".">>}

\* the counter follows the draw and draw_grid calls for every basename, and
\* for a basename that ends in a name, with the draw_grid calls counted as
\* frames, every draw call writes the file of its frame and no two the same
FrameFilesOfNamed ==
    grid.kind = "drawer" =>
        /\ grid.frame = Cardinality(LoggedCalls({"draw", "draw_grid"}))
        /\ EndsInName(grid.basename) =>
            /\ ~panicked
            /\ \A i \in LoggedCalls({"draw"}) :
                LET n == Cardinality({j \in LoggedCalls({"draw", "draw_grid"}) : j <= i})
                IN  items[i].file = Some(Path_components(grid.basename \o <<"_">> \o format_06(n) \o PNG))
            /\ \A i, j \in LoggedCalls({"draw"}) : i /= j => items[i].file /= items[j].file

\* the first draw call of a drawer with the empty basename has written a file
\* whose frame number is not padded
DrawerUnpadded ==
    /\ grid.kind = "drawer" /\ grid.basename = <<>>
    /\ items /= <<>> /\ items[1] = Logged("draw", Some(<<(<<"_", "1">> \o PNG)>>))

\* astar has returned
AstarReturned == hist.name = "astar" /\ ~iter.live
AstarStart == args[1]
AstarGoal == args[2]
AstarDirections == args[3]

\* what astar returned is a path from start to goal of the cost
AstarPathOfCost(cost) ==
    /\ out /= None
    /\ out[1][1] = cost
    /\ LET path == out[1][2]
       IN  /\ path[1] = AstarStart
           /\ path[Len(path)] = AstarGoal

\* C21: for every grid whose cells are all nodes, with weight 1 on every
\* edge, with connectivity 4 or 8 and for every start and goal cell of the
\* grid, astar on the graph of grid_to_graph returns a path from start to
\* goal whose cost is the Manhattan distance of the two.
C21_AstarManhattan ==
    AstarReturned => AstarPathOfCost(manhattan(AstarGoal, AstarStart))

\* on a rectangular dense grid: with connectivity 4 the cost is the Manhattan
\* distance, with connectivity 8 the greater of the two coordinate distances
AstarOnRectangular ==
    (AstarReturned /\ grid.kind = "dense" /\ Rectangular(grid)) =>
        /\ AstarDirections = 4 => AstarPathOfCost(manhattan(AstarGoal, AstarStart))
        /\ AstarDirections = 8 =>
              AstarPathOfCost(Max2(Abs(AstarGoal[1] - AstarStart[1]), Abs(AstarGoal[2] - AstarStart[2])))

\* astar has returned no path
AstarNoPath == AstarReturned /\ out = None

\* astar has returned, on a rectangular dense grid with connectivity 8, a
\* path that costs less than the Manhattan distance
AstarDiagonalCost ==
    /\ AstarReturned /\ grid.kind = "dense" /\ Rectangular(grid) /\ AstarDirections = 8
    /\ out /= None /\ out[1][1] < manhattan(AstarGoal, AstarStart)

\* astar has returned no path to a cell of a ragged dense grid that lies
\* outside its extents
AstarCellNotNode ==
    /\ AstarNoPath /\ Ragged(grid)
    /\ ~InBox(AstarGoal, extents(grid))

====
